---------------------------- MODULE Spec2Model ----------------------------
(***************************************************************************)
(* Model of the atopile compiler front end (src/atopile/front_end.py) and  *)
(* of the address helpers it is keyed by (src/atopile/address.py).         *)
(*                                                                         *)
(* The three translators are synchronous, recursive, cache-checking        *)
(* getters:                                                                *)
(*   Scoop.get_obj_def       file  -> ObjectDef skeletons                  *)
(*   Dizzy.get_obj_layer     def   -> ObjectLayer (super pointer + data)   *)
(*   Lofty.get_instance_tree layer -> Instance tree                        *)
(* One action of the model is one top-level getter call; the recursion of  *)
(* the call is a RECURSIVE operator that threads the caches through.       *)
(*                                                                         *)
(* Reading of the source.  front_end.py is a snapshot taken in the middle  *)
(* of the move from Ref-keyed to address-keyed instances.  It names a few  *)
(* members that address.py does not define.  The model reads them as the   *)
(* address.py function of the same purpose:                                *)
(*   addr.file                 -> get_file(addr)                           *)
(*   addr.ref                  -> the entry section, split at the dots     *)
(*   addr.add_node(n)          -> add_entry(addr, n)                       *)
(*   AddrStr.from_parts(f, r)  -> from_parts(f, ".".join(r))               *)
(*   Instance(ref = r)         -> Instance.addr (the declared field)       *)
(*   self._ref_stack[-1]       -> self._instance_context_stack[-1] (the    *)
(*                                only stack enter_instance pushes)        *)
(*   make_instance(addr.ref,.) -> the instance is keyed by its address, as *)
(*                                instance_methods.py reads the cache      *)
(***************************************************************************)
EXTENDS Naturals, Sequences, FiniteSets, TLC

(***************************************************************************)
(* Bounds of the model.                                                    *)
(***************************************************************************)
\* number of top-level getter calls of one run (every call allocates the
\* objects it builds under its own call number)
MaxCalls == 3

(***************************************************************************)
(* Generic helpers.                                                        *)
(***************************************************************************)
Last(s) == s[Len(s)]

Front(s) == SubSeq(s, 1, Len(s) - 1)

Range(s) == {s[i] : i \in 1..Len(s)}

\* a Python dict as a function; d[k] = v overwrites or inserts
DictSet(d, k, v) == [x \in (DOMAIN d) \cup {k} |-> IF x = k THEN v ELSE d[x]]

EmptyDict == [x \in {} |-> <<>>]

(***************************************************************************)
(* address.py.  An address string is a sequence of tokens: names and the   *)
(* two separator characters ":" and ".".   "f.ato:A.B::x" is               *)
(* <<"f", ":", "A", ".", "B", ":", ":", "x">>.                             *)
(***************************************************************************)
\* Python's None, where a function returns Optional[str]
None == <<"None">>

\* Python's truth value of an Optional[str]
Truthy(s) == s # None /\ s # <<>>

RECURSIVE SplitFrom(_, _, _, _)
SplitFrom(s, sep, i, cur) ==
    IF i > Len(s) THEN <<cur>>
    ELSE IF s[i] = sep THEN <<cur>> \o SplitFrom(s, sep, i + 1, <<>>)
    ELSE SplitFrom(s, sep, i + 1, Append(cur, s[i]))

\* str.split(sep) for a one-character separator
Split(s, sep) == SplitFrom(s, sep, 1, <<>>)

RECURSIVE Join(_, _)
\* sep.join(parts), for parts that are single tokens
Join(sep, parts) ==
    IF parts = <<>> THEN <<>>
    ELSE IF Len(parts) = 1 THEN <<parts[1]>>
    ELSE <<parts[1], sep>> \o Join(sep, Tail(parts))

get_file(address) == Split(address, ":")[1]

\* the places where the two-character separator "::" starts
DoubleColons(address) ==
    {i \in 1..(Len(address) - 1) : address[i] = ":" /\ address[i + 1] = ":"}

\* address.split("::")[0]
get_entry(address) ==
    IF DoubleColons(address) = {} THEN address
    ELSE SubSeq(address, 1,
            (CHOOSE i \in DoubleColons(address) :
                \A j \in DoubleColons(address) : i <= j) - 1)

get_entry_section(address) ==
    LET parts == Split(address, ":")
    IN  IF Len(parts) >= 2 THEN parts[2] ELSE None

get_instance_section(address) ==
    LET parts == Split(address, ":")
    IN  IF Len(parts) >= 4 THEN parts[4] ELSE None

add_instance(address, instance) ==
    IF ~Truthy(get_instance_section(address))
    THEN address \o <<":", ":">> \o instance
    ELSE address \o <<".">> \o instance

\* add_entry raises ValueError on an instance address; the front end only
\* calls it on file and entry addresses
add_entry(address, entry) ==
    IF ~Truthy(get_entry_section(address))
    THEN address \o <<":">> \o entry
    ELSE address \o <<".">> \o entry

from_parts(file, entry, instance) ==
    LET a1 == IF Truthy(entry) THEN add_entry(file, entry) ELSE file
    IN  IF Truthy(instance) THEN add_instance(a1, instance) ELSE a1

\* addr.ref: the entry path of an address as a Ref (a tuple of names)
AddrRef(address) ==
    LET e == get_entry_section(address)
    IN  IF Truthy(e) THEN SelectSeq(e, LAMBDA t : t # ".") ELSE <<>>

\* AddrStr.from_parts(path, ref)
AddrFromRef(file, ref) == from_parts(file, Join(".", ref), None)


(***************************************************************************)
(* Source text.  A parsed file is a sequence of statements (stmt); a stmt  *)
(* is one line of simple statements (simple_stmts) or a block definition   *)
(* (compound_stmt).  Every statement is a record of the same shape:        *)
(*   k     kind                                                            *)
(*   a, b  references (tuples of names), <<>> when absent                  *)
(*   v, w  texts                                                           *)
(*   inl   a block written on the header's line (block: simple_stmts)      *)
(*   body  the statements of a block, the simple statements of a line      *)
(***************************************************************************)
Stmt(k, a, b, v, w, inl, body) ==
    [k |-> k, a |-> a, b |-> b, v |-> v, w |-> w, inl |-> inl, body |-> body]

\* one source line holding the simple statements ss
Line(ss) == Stmt("line", <<>>, <<>>, "", "", FALSE, ss)

\* <btype> <name>:  followed by an indented body
BlockDef(btype, name, body) == Stmt("block", <<name>>, <<>>, btype, "", FALSE, body)

\* <btype> <name> from <ref>:  followed by an indented body
BlockFrom(btype, name, from, body) == Stmt("block", <<name>>, from, btype, "FROM", FALSE, body)

\* <btype> <name>: s1; s2   (the body on the header's line)
BlockInline(btype, name, ss) == Stmt("block", <<name>>, <<>>, btype, "", TRUE, <<Line(ss)>>)

\* import <ref> from "<file>"
ImportStmt(ref, file) == Stmt("import", ref, <<>>, file, "", FALSE, <<>>)

\* <ref> -> <new class>
RetypeStmt(ref, new) == Stmt("retype", ref, new, "", "", FALSE, <<>>)

\* <ref> = <literal>
AssignLit(ref, lit) == Stmt("assign", ref, <<>>, "lit", lit, FALSE, <<>>)

\* <ref> = new <class>
AssignNew(ref, cls) == Stmt("assign", ref, cls, "new", "", FALSE, <<>>)

\* <ref> = <other name>   (an assignable that is a name_or_attr)
AssignName(ref, other) == Stmt("assign", ref, other, "name", "", FALSE, <<>>)

PinDef(name) == Stmt("pin", <<name>>, <<>>, "", "", FALSE, <<>>)

SignalDef(name) == Stmt("signal", <<name>>, <<>>, "", "", FALSE, <<>>)

\* <connectable> ~ <connectable>; a connectable is a reference ("ref"), or
\* a pin or signal definition ("pin", "signal") whose name is the reference
Connect(skind, src, tkind, tgt) == Stmt("connect", src, tgt, skind, tkind, FALSE, <<>>)

(***************************************************************************)
(* Exceptions and visit outcomes.  A visit either returns items or raises; *)
(* on the way it may have passed errors to error_handler.handle.           *)
(*   items    the KeyOptMap returned: <<[key, val], ...>>, key <<>> = None *)
(*   exc      the exception raised (NoExc when the visit returned)         *)
(*   handled  the errors passed to the error handler, in order             *)
(*   att      the statements whose visit was started, as paths of indices  *)
(*            relative to the visited block                                *)
(***************************************************************************)
NoExc == [type |-> "none", at |-> <<>>, errs |-> <<>>, ctx |-> FALSE]

\* an exception of class type raised by the statement at path at
Exc(type, at) == [type |-> type, at |-> at, errs |-> <<>>, ctx |-> FALSE]

\* <class>.from_ctx(message, ctx): the exception carries the source
\* location of the parse-tree context it is given
ExcFromCtx(type) == [type |-> type, at |-> <<>>, errs |-> <<>>, ctx |-> TRUE]

\* ExceptionGroup("Errors occured in nested statements", _errors)
ExcGroup(errs) ==
    [type |-> "ExceptionGroup", at |-> <<>>, errs |-> errs, ctx |-> FALSE]

Raised(o) == o.exc.type # "none"

Returns(items) == [items |-> items, exc |-> NoExc, handled |-> <<>>, att |-> {}]

Raises(e) == [items |-> <<>>, exc |-> e, handled |-> <<>>, att |-> {}]

Item(key, val) == [key |-> key, val |-> val]

\* the classes of atopile.errors, all derived from AtoError; the built-in
\* ExceptionGroup, KeyError, IndexError and AttributeError are not
AtoErrorClasses ==
    {"AtoError", "AtoKeyError", "AtoTypeError", "AtoSyntaxError",
     "AtoImportNotFoundError", "AtoAmbiguousReferenceError"}

\* isinstance(err, errors.AtoError)
IsAtoError(e) == e.type \in AtoErrorClasses

RECURSIVE PrefixExc(_, _)
\* the exception e of child i, seen from the parent
PrefixExc(i, e) ==
    IF e.type = "none" THEN e
    ELSE [type |-> e.type,
          at   |-> IF e.type = "ExceptionGroup" THEN <<>> ELSE <<i>> \o e.at,
          errs |-> [j \in DOMAIN e.errs |-> PrefixExc(i, e.errs[j])],
          ctx  |-> e.ctx]

\* the item of child i, seen from the parent: an Instance created by a
\* statement carries the path of that statement as its identity
PrefixItem(i, it) ==
    IF it.val.t = "Instance" THEN [it EXCEPT !.val.oid = <<i>> \o @] ELSE it

\* the outcome o of child i, seen from the parent
PrefixOutcome(i, o) ==
    [items   |-> [j \in DOMAIN o.items |-> PrefixItem(i, o.items[j])],
     exc     |-> PrefixExc(i, o.exc),
     handled |-> [j \in DOMAIN o.handled |-> PrefixExc(i, o.handled[j])],
     att     |-> {<<i>>} \cup {<<i>> \o p : p \in o.att}]

\* __visit(child) of visit_iterable_helper, for the child whose visit does
\* o: the loop state afterwards.  acc.errors is _errors; an exception that
\* is no AtoError is not caught and leaves the loop at once (acc.exc).
HelperVisit(acc, o) ==
    IF ~Raised(o)
    THEN [acc EXCEPT !.items = @ \o o.items,
                     !.handled = @ \o o.handled,
                     !.att = @ \cup o.att]
    ELSE IF IsAtoError(o.exc)
    THEN [acc EXCEPT !.errors = Append(@, o.exc),
                     !.handled = @ \o o.handled \o <<o.exc>>,
                     !.att = @ \cup o.att]
    ELSE [acc EXCEPT !.exc = o.exc,
                     !.handled = @ \o o.handled,
                     !.att = @ \cup o.att]

RECURSIVE HelperFold(_, _, _)
\* the loop of visit_iterable_helper: list(__visit(child) for child in
\* children), from child i on.  os[i] is what visiting child i does.
HelperFold(os, i, acc) ==
    IF i > Len(os) \/ Raised(acc) THEN acc
    ELSE HelperFold(os, i + 1, HelperVisit(acc, PrefixOutcome(i, os[i])))

\* the end of visit_iterable_helper: the group is raised once the loop is
\* over, if any error was collected
HelperResult(acc) ==
    IF Raised(acc)
    THEN [items |-> <<>>, exc |-> acc.exc, handled |-> acc.handled, att |-> acc.att]
    ELSE IF acc.errors # <<>>
    THEN [items |-> <<>>, exc |-> ExcGroup(acc.errors),
          handled |-> acc.handled, att |-> acc.att]
    ELSE [items |-> acc.items, exc |-> NoExc,
          handled |-> acc.handled, att |-> acc.att]

\* BaseTranslator.visit_iterable_helper
visit_iterable_helper(os) ==
    HelperResult(HelperFold(os, 1,
                   [items |-> <<>>, errors |-> <<>>, exc |-> NoExc,
                    handled |-> <<>>, att |-> {}]))

(***************************************************************************)
(* KeyOptMap helpers.                                                      *)
(***************************************************************************)
\* the items of a KeyOptMap whose value is of kind t
ItemsOfType(items, t) == SelectSeq(items, LAMBDA it : it.val.t = t)

\* {k: v for k, v in items}: the last item of a key wins
DictOfItems(items) ==
    [k \in {items[i].key : i \in DOMAIN items} |->
        LET i == CHOOSE i \in DOMAIN items :
                    /\ items[i].key = k
                    /\ \A j \in DOMAIN items : items[j].key = k => j <= i
        IN  items[i].val]

(***************************************************************************)
(* Scoop: the definition catalog.                                          *)
(*                                                                         *)
(* src is the source tree: a function from file names to the statements    *)
(* of the file (what ast_getter returns).                                  *)
(***************************************************************************)
\* visitBlocktype with every keyword read as module
ScoopBlocktypeAlwaysModule(text) == <<"MODULE">>

\* Scoop.visitBlocktype
ScoopBlocktype(text) ==
    CASE text = "module"    -> <<"MODULE">>
      [] text = "component" -> <<"COMPONENT">>
      [] text = "interface" -> <<"INTERFACE">>

\* Scoop.visitImport_stmt: the file is searched on the search paths; the
\* imported name is kept unresolved
ScoopImport(s, src) ==
    IF s.v \notin DOMAIN src
    THEN Raises(ExcFromCtx("AtoImportNotFoundError"))
    ELSE Returns(<<Item(s.a, [t |-> "Import", obj_addr |-> AddrFromRef(<<s.v>>, s.a)])>>)

\* Scoop.visitRetype_stmt
ScoopRetype(s) ==
    Returns(<<Item(s.a, [t |-> "Replacement", new_super_ref |-> s.b])>>)

\* Scoop.visitSimple_stmt: only retype and import statements are visited
ScoopSimple(s, src) ==
    CASE s.k = "retype" -> ScoopRetype(s)
      [] s.k = "import" -> ScoopImport(s, src)
      [] OTHER          -> Returns(<<>>)

RECURSIVE ScoopStmt(_, _)
\* BaseTranslator.visitBlock, as Scoop.visitBlockdef calls it
ScoopBlock(blk, src) ==
    IF ~blk.inl
    THEN visit_iterable_helper([i \in DOMAIN blk.body |-> ScoopStmt(blk.body[i], src)])
    ELSE visit_iterable_helper(
            [j \in DOMAIN blk.body[1].body |-> ScoopSimple(blk.body[1].body[j], src)])

\* Scoop.visitBlockdef, once the block has been visited with locals_
ScoopBlockObj(s, locals_) ==
    IF Raised(locals_) THEN locals_
    ELSE [locals_ EXCEPT !.items =
            <<Item(s.a,
                [t            |-> "ObjectDef",
                 super_ref    |-> IF s.w = "FROM" THEN s.b ELSE ScoopBlocktype(s.v),
                 imports      |-> DictOfItems(ItemsOfType(locals_.items, "Import")),
                 local_defs   |-> DictOfItems(ItemsOfType(locals_.items, "ObjectDef")),
                 replacements |-> DictOfItems(ItemsOfType(locals_.items, "Replacement")),
                 src          |-> s])>>]

\* Scoop.visitBlockdef
ScoopBlockdef(s, src) == ScoopBlockObj(s, ScoopBlock(s, src))

\* BaseTranslator.visitStmt / visitSimple_stmts for Scoop
ScoopStmt(s, src) ==
    IF s.k = "line"
    THEN visit_iterable_helper([j \in DOMAIN s.body |-> ScoopSimple(s.body[j], src)])
    ELSE ScoopBlockdef(s, src)

\* the File_inputContext of a file, in the shape of a block
FileCtx(stmts) == Stmt("file", <<>>, <<>>, "", "", FALSE, stmts)

\* Scoop.visitFile_input, once the statements have been visited with locals_
ScoopFileObj(stmts, locals_) ==
    IF Raised(locals_) THEN locals_
    ELSE IF \E i \in DOMAIN locals_.items :
                locals_.items[i].val.t \notin {"ObjectDef", "Import"}
    THEN [locals_ EXCEPT !.items = <<>>, !.exc = Exc("AtoError", <<>>)]
    ELSE [locals_ EXCEPT !.items =
            <<Item(<<>>,
                [t            |-> "ObjectDef",
                 super_ref    |-> <<"MODULE">>,
                 imports      |-> DictOfItems(ItemsOfType(locals_.items, "Import")),
                 local_defs   |-> DictOfItems(ItemsOfType(locals_.items, "ObjectDef")),
                 replacements |-> EmptyDict,
                 src          |-> FileCtx(stmts)])>>]

\* Scoop.visitFile_input
ScoopFileInput(stmts, src) ==
    ScoopFileObj(stmts,
        visit_iterable_helper([i \in DOMAIN stmts |-> ScoopStmt(stmts[i], src)]))

\* obj with obj.address = addr and obj.closure = closure attached.  oid
\* tells the ObjectDef objects of one parse from those of another.
RegisteredObj(obj, addr, closure, oid) ==
    [t            |-> "ObjectDef",
     oid          |-> oid,
     address      |-> addr,
     closure      |-> closure,
     super_ref    |-> obj.super_ref,
     imports      |-> obj.imports,
     local_defs   |-> [r \in DOMAIN obj.local_defs |-> add_entry(addr, <<r[1]>>)],
     replacements |-> obj.replacements,
     src          |-> obj.src]

RECURSIVE RegisteredTree(_, _, _, _)
\* the local definitions registered with the closure of obj, obj left out
RegisteredChildrenOuterClosure(obj, me, oid) ==
    UNION {RegisteredTree(obj.local_defs[r], add_entry(me.address, <<r[1]>>),
                          me.closure, oid) : r \in DOMAIN obj.local_defs}

\* the cache entries written for the local definitions of obj, which was
\* registered as me
RegisteredChildren(obj, me, oid) ==
    UNION {RegisteredTree(obj.local_defs[r], add_entry(me.address, <<r[1]>>),
                          <<me>> \o me.closure, oid) : r \in DOMAIN obj.local_defs}

\* Scoop._register_obj_tree: the cache entries written for obj and the
\* definitions nested in it, as pairs <<address, registered ObjectDef>>
RegisteredTree(obj, addr, closure, oid) ==
    {<<addr, RegisteredObj(obj, addr, closure, oid)>>}
    \cup RegisteredChildren(obj, RegisteredObj(obj, addr, closure, oid), oid)

\* cache updated with the pairs written into it
WritePairs(cache, pairs) ==
    [a \in (DOMAIN cache) \cup {p[1] : p \in pairs} |->
        IF \E p \in pairs : p[1] = a
        THEN (CHOOSE p \in pairs : p[1] = a)[2]
        ELSE cache[a]]

(***************************************************************************)
(* The state a getter call works on.                                       *)
(*   defs, layers, insts   the _output_cache of Scoop, Dizzy and Lofty     *)
(*   n                     number of objects-building passes so far; the   *)
(*                         pass number is the identity of what it builds   *)
(*   handled               errors passed to the error handler by the call  *)
(*   visits                the visitBlock calls of Dizzy and Lofty during  *)
(*                         the call: the block and what the visit did      *)
(*   known                 Lofty._known_replacements                       *)
(* A getter returns [S, exc, obj]: the state it leaves, the exception it   *)
(* raised (NoExc if it returned) and the object it returned.               *)
(***************************************************************************)
NoObj == [t |-> "nil"]

VisitRec(who, blk, o) ==
    [who |-> who, blk |-> blk, att |-> o.att, exc |-> o.exc, handled |-> o.handled]

Ret(S, obj) == [S |-> S, exc |-> NoExc, obj |-> obj]

Fail(S, e) == [S |-> S, exc |-> e, obj |-> NoObj]

\* return self._output_cache[addr]
CachedObjDef(addr, S) ==
    IF addr \in DOMAIN S.defs THEN Ret(S, S.defs[addr])
    ELSE Fail(S, Exc("KeyError", <<>>))

\* get_obj_def for an address that is not in the cache, once the file has
\* been visited with o: the whole file is registered, then the address is
\* read from the cache
RegisterFile(addr, S, file, o) ==
    IF Raised(o)
    THEN Fail([S EXCEPT !.handled = @ \o o.handled, !.n = @ + 1], o.exc)
    ELSE CachedObjDef(addr,
            [S EXCEPT !.handled = @ \o o.handled,
                      !.n = @ + 1,
                      !.defs = WritePairs(@, RegisteredTree(o.items[1].val, file,
                                                            <<>>, <<S.n + 1>>))])

\* Scoop.get_obj_def
get_obj_def(addr, S, src) ==
    IF addr \in DOMAIN S.defs THEN Ret(S, S.defs[addr])
    ELSE IF get_file(addr)[1] \notin DOMAIN src
    THEN Fail(S, Exc("FileNotFoundError", <<>>))
    ELSE RegisterFile(addr, S, get_file(addr),
                      ScoopFileInput(src[get_file(addr)[1]], src))

(***************************************************************************)
(* The built-in layers.                                                    *)
(***************************************************************************)
\* src_ctx = None
NoSrc == Stmt("none", <<>>, <<>>, "", "", FALSE, <<>>)

BuiltinAddr(name) == <<"<Built-in>", ":", name>>

\* make_obj_layer(address, super)
make_obj_layer(address, super) ==
    [t       |-> "ObjectLayer",
     oid     |-> <<0>>,
     obj_def |-> [t |-> "ObjectDef", oid |-> <<0>>, address |-> address,
                  closure |-> <<>>, super_ref |-> <<>>, imports |-> EmptyDict,
                  local_defs |-> EmptyDict, replacements |-> EmptyDict,
                  src |-> NoSrc],
     super   |-> super,
     data    |-> EmptyDict,
     src     |-> NoSrc]

MODULE_ == make_obj_layer(BuiltinAddr("Module"), NoObj)

COMPONENT == make_obj_layer(BuiltinAddr("Component"), MODULE_)

PIN == make_obj_layer(BuiltinAddr("Pin"), NoObj)

SIGNAL == make_obj_layer(BuiltinAddr("Signal"), NoObj)

INTERFACE == make_obj_layer(BuiltinAddr("Interface"), NoObj)

BUILTINS_BY_REF ==
    [r \in {<<"MODULE">>, <<"COMPONENT">>, <<"INTERFACE">>, <<"PIN">>, <<"SIGNAL">>} |->
        CASE r = <<"MODULE">>    -> MODULE_
          [] r = <<"COMPONENT">> -> COMPONENT
          [] r = <<"INTERFACE">> -> INTERFACE
          [] r = <<"PIN">>       -> PIN
          [] r = <<"SIGNAL">>    -> SIGNAL]

BUILTINS_BY_ADDR ==
    [a \in {BuiltinAddr("Module"), BuiltinAddr("Component"), BuiltinAddr("Pin"),
            BuiltinAddr("Signal"), BuiltinAddr("Interface")} |->
        CASE a = BuiltinAddr("Module")    -> MODULE_
          [] a = BuiltinAddr("Component") -> COMPONENT
          [] a = BuiltinAddr("Pin")       -> PIN
          [] a = BuiltinAddr("Signal")    -> SIGNAL
          [] a = BuiltinAddr("Interface") -> INTERFACE]

(***************************************************************************)
(* Closure lookup.                                                         *)
(***************************************************************************)
\* import_leads of one scope: the imports whose first name is ref[0]
ImportLeads(scope, ref) == {r \in DOMAIN scope.imports : r[1] = ref[1]}

\* obj_lead of one scope is not None
HasObjLead(scope, ref) == <<ref[1]>> \in DOMAIN scope.local_defs

\* what a scope with a local definition for ref[0] resolves ref to
LocalDefAddr(scope, ref) ==
    LET lead == scope.local_defs[<<ref[1]>>]
    IN  AddrFromRef(get_file(lead), AddrRef(lead) \o Tail(ref))

RECURSIVE LookupFrom(_, _, _)
\* the loop of lookup_obj_in_closure over context.closure, from scope i on,
\* and the built-ins after the loop.  Returns [exc, addr, scope]; scope is
\* the index of the scope that ended the search (0: none did).
LookupFrom(closure, i, ref) ==
    IF i > Len(closure)
    THEN IF ref \in DOMAIN BUILTINS_BY_REF
         THEN [exc |-> NoExc, addr |-> BUILTINS_BY_REF[ref].obj_def.address, scope |-> 0]
         ELSE [exc |-> Exc("KeyError", <<>>), addr |-> None, scope |-> 0]
    ELSE LET scope == closure[i]
         IN  IF ImportLeads(scope, ref) # {} /\ HasObjLead(scope, ref)
             THEN [exc |-> ExcFromCtx("AtoAmbiguousReferenceError"),
                   addr |-> None, scope |-> i]
             ELSE IF HasObjLead(scope, ref)
             THEN [exc |-> NoExc, addr |-> LocalDefAddr(scope, ref), scope |-> i]
             ELSE IF ref \in DOMAIN scope.imports
             THEN [exc |-> NoExc, addr |-> scope.imports[ref].obj_addr, scope |-> i]
             ELSE LookupFrom(closure, i + 1, ref)

\* the lookup with the built-in names tried before the closure
lookup_builtins_first(context, ref) ==
    IF ref \in DOMAIN BUILTINS_BY_REF
    THEN [exc |-> NoExc, addr |-> BUILTINS_BY_REF[ref].obj_def.address, scope |-> 0]
    ELSE LookupFrom(context.closure, 1, ref)

lookup_obj_in_closure(context, ref) == LookupFrom(context.closure, 1, ref)

(***************************************************************************)
(* Dizzy: the layer builder.                                               *)
(***************************************************************************)
\* visitAssign_stmt without the test of the length of the assigned reference
DizzyAssignAnyLength(s) ==
    IF s.v = "new" THEN Returns(<<>>)
    ELSE IF s.v = "name" THEN Raises(Exc("AtoError", <<>>))
    ELSE Returns(<<Item(s.a, [t |-> "value", v |-> s.w])>>)

\* Dizzy.visitAssign_stmt (with BaseTranslator.visitAssignable)
DizzyAssign(s) ==
    IF s.v = "new" THEN Returns(<<>>)
    ELSE IF Len(s.a) > 1 THEN Returns(<<>>)
    ELSE IF s.v = "name" THEN Raises(Exc("AtoError", <<>>))
    ELSE Returns(<<Item(s.a, [t |-> "value", v |-> s.w])>>)

\* Dizzy.visitSimple_stmt: only assignments are visited
DizzySimple(s) ==
    IF s.k = "assign" THEN DizzyAssign(s) ELSE Returns(<<>>)

\* BaseTranslator.visitStmt for Dizzy: a line is visited statement by
\* statement, a block definition gives NOTHING (Dizzy.visitBlockdef)
DizzyStmt(s) ==
    IF s.k = "line"
    THEN visit_iterable_helper([j \in DOMAIN s.body |-> DizzySimple(s.body[j])])
    ELSE Returns(<<>>)

\* BaseTranslator.visitBlock for Dizzy, on a block or a file input
DizzyBlock(ctx) ==
    IF ctx.inl
    THEN visit_iterable_helper(
            [j \in DOMAIN ctx.body[1].body |-> DizzySimple(ctx.body[1].body[j])])
    ELSE IF ctx.body # <<>>
    THEN visit_iterable_helper([i \in DOMAIN ctx.body |-> DizzyStmt(ctx.body[i])])
    ELSE Raises(Exc("AttributeError", <<>>))

\* data = {ref[0]: v for ref, v in locals_}
LayerData(items) ==
    [k \in {items[i].key[1] : i \in DOMAIN items} |->
        items[CHOOSE i \in DOMAIN items :
                 /\ items[i].key[1] = k
                 /\ \A j \in DOMAIN items : items[j].key[1] = k => j <= i].val.v]

\* make_object with every layer made a root: super = None
MakeObjectLayerWithoutSuper(obj_def, sup, locals_) ==
    IF Raised(locals_)
    THEN Fail([sup.S EXCEPT !.handled = @ \o locals_.handled,
                            !.visits = Append(@, VisitRec("Dizzy", obj_def.src, locals_))],
              locals_.exc)
    ELSE Ret([sup.S EXCEPT !.handled = @ \o locals_.handled,
                           !.visits = Append(@, VisitRec("Dizzy", obj_def.src, locals_)),
                           !.n = @ + 1],
             [t       |-> "ObjectLayer",
              oid     |-> <<sup.S.n + 1>>,
              obj_def |-> obj_def,
              super   |-> NoObj,
              data    |-> LayerData(locals_.items),
              src     |-> obj_def.src])

\* the ObjectLayer that make_object returns, once the super layer has been
\* got with sup and the block has been visited with locals_
MakeObjectLayer(obj_def, sup, locals_) ==
    IF Raised(locals_)
    THEN Fail([sup.S EXCEPT !.handled = @ \o locals_.handled,
                            !.visits = Append(@, VisitRec("Dizzy", obj_def.src, locals_))],
              locals_.exc)
    ELSE Ret([sup.S EXCEPT !.handled = @ \o locals_.handled,
                           !.visits = Append(@, VisitRec("Dizzy", obj_def.src, locals_)),
                           !.n = @ + 1],
             [t       |-> "ObjectLayer",
              oid     |-> <<sup.S.n + 1>>,
              obj_def |-> obj_def,
              super   |-> sup.obj,
              data    |-> LayerData(locals_.items),
              src     |-> obj_def.src])

\* make_object, once the super layer has been got with sup: the block of
\* the definition is visited
MakeObjectVisit(obj_def, sup) ==
    IF sup.exc.type # "none" THEN Fail(sup.S, sup.exc)
    ELSE MakeObjectLayer(obj_def, sup, DizzyBlock(obj_def.src))

RECURSIVE get_obj_layer(_, _, _, _)
\* make_object, once the super reference has been looked up with lk: the
\* layer of the super is got
MakeObjectSuper(obj_def, S, src, active, lk) ==
    IF lk.exc.type # "none" THEN Fail(S, lk.exc)
    ELSE MakeObjectVisit(obj_def, get_obj_layer(lk.addr, S, src, active))

\* Dizzy.make_object.  active: the addresses whose get_obj_layer call is
\* on the call stack; coming back to one of them is an endless recursion,
\* which Python ends with a RecursionError.
make_object(obj_def, S, src, active) ==
    MakeObjectSuper(obj_def, S, src, active,
                    lookup_obj_in_closure(obj_def, obj_def.super_ref))

\* the layer stored under its address and under the address of its file
StoreObjLayerAlsoForFile(addr, m) ==
    IF m.exc.type # "none" THEN Fail(m.S, m.exc)
    ELSE Ret([m.S EXCEPT !.layers = DictSet(DictSet(@, get_file(addr), m.obj),
                                            addr, m.obj)], m.obj)

\* self._output_cache[addr] = obj, with the obj that make_object gave as m
StoreObjLayer(addr, m) ==
    IF m.exc.type # "none" THEN Fail(m.S, m.exc)
    ELSE Ret([m.S EXCEPT !.layers = DictSet(@, addr, m.obj)], m.obj)

\* get_obj_layer for an address that is not in the cache, once the
\* definition has been got with d
LayerOfObjDef(addr, d, src, active) ==
    IF d.exc.type # "none" THEN Fail(d.S, d.exc)
    ELSE StoreObjLayer(addr, make_object(d.obj, d.S, src, active \cup {addr}))

\* Dizzy.get_obj_layer
get_obj_layer(addr, S, src, active) ==
    IF addr \in DOMAIN S.layers THEN Ret(S, S.layers[addr])
    ELSE IF addr \in active THEN Fail(S, Exc("RecursionError", <<>>))
    ELSE LayerOfObjDef(addr, get_obj_def(addr, S, src), src, active)

(***************************************************************************)
(* Lofty: the instance builder.                                            *)
(*                                                                         *)
(* An Instance is                                                          *)
(*   oid            the identity of the object: the pass that built it,    *)
(*                  then the layer and statement that did                  *)
(*   addr           its address                                            *)
(*   supers         its layers, most-derived first                         *)
(*   children       name -> Instance                                       *)
(*   names          the keys of children in the order of the dict          *)
(*   links          the Links it holds                                     *)
(*   override_data  its own overrides                                      *)
(*   data           the read view: the maps searched before and after      *)
(*                  override_data, which the view holds by reference       *)
(* A Link names its three instances by [addr, oid].                        *)
(***************************************************************************)
\* recurse(lambda x: x.super, super): the layer and its supers
RECURSIVE SuperChain(_)
SuperChain(layer) ==
    IF layer.t = "nil" THEN <<>> ELSE <<layer>> \o SuperChain(layer.super)

\* the layers left in the order of supers, most derived first
NotReversed(s) == s

\* reversed(supers)
Reverse(s) == [i \in DOMAIN s |-> s[Len(s) + 1 - i]]

\* the layered view with the layers in visiting order, least derived first
InstanceDataLeastDerivedFirst(supers) ==
    [front |-> <<>>, back |-> [i \in DOMAIN supers |-> supers[Len(supers) + 1 - i].data]]

\* ChainMap(override_data, *[s.data for s in supers])
InstanceData(supers) ==
    [front |-> <<>>, back |-> [i \in DOMAIN supers |-> supers[i].data]]

\* data = override_data, of a pin or signal
PinData == [front |-> <<>>, back |-> <<>>]

\* the maps of an instance's read view, in the order they are searched
DataMaps(inst) == inst.data.front \o <<inst.override_data>> \o inst.data.back

\* ChainMap.__contains__
DataHas(inst, k) == \E i \in DOMAIN DataMaps(inst) : k \in DOMAIN DataMaps(inst)[i]

\* ChainMap.__getitem__: the first map that has the key
DataGet(inst, k) ==
    LET maps == DataMaps(inst)
        i == CHOOSE i \in DOMAIN maps :
                /\ k \in DOMAIN maps[i]
                /\ \A j \in DOMAIN maps : k \in DOMAIN maps[j] => i <= j
    IN  maps[i][k]

ObjRef(inst) == [addr |-> inst.addr, oid |-> inst.oid]

\* the Instance that Lofty.visitPindef_stmt / visitSignaldef_stmt builds in
\* the instance context ctx
LeafInstance(ctx, ref, layer) ==
    [t             |-> "Instance",
     oid           |-> <<>>,
     addr          |-> add_instance(ctx, <<ref[1]>>),
     supers        |-> <<layer>>,
     children      |-> EmptyDict,
     names         |-> <<>>,
     links         |-> <<>>,
     data          |-> PinData,
     override_data |-> EmptyDict]

\* Lofty.visitPindef_stmt
LoftyPindef(s, ctx) == Returns(<<Item(s.a, LeafInstance(ctx, s.a, PIN))>>)

\* Lofty.visitSignaldef_stmt
LoftySignaldef(s, ctx) == Returns(<<Item(s.a, LeafInstance(ctx, s.a, SIGNAL))>>)

\* Lofty.visitConnectable: the items a connectable adds to the result of
\* its connect statement; side tells the two connectables apart
LoftyConnectable(kind, ref, side, ctx) ==
    CASE kind = "pin"    ->
            <<PrefixItem(side, Item(ref, LeafInstance(ctx, ref, PIN)))>>
      [] kind = "signal" ->
            <<PrefixItem(side, Item(ref, LeafInstance(ctx, ref, SIGNAL)))>>
      [] OTHER           -> <<>>

\* Lofty.visitConnect_stmt
LoftyConnect(s, ctx) ==
    Returns(<<Item(<<>>, [t |-> "LinkDef", source |-> s.a, target |-> s.b,
                          src_ctx |-> s])>>
            \o LoftyConnectable(s.v, s.a, 1, ctx)
            \o LoftyConnectable(s.w, s.b, 2, ctx))

\* Lofty.visitAssign_stmt.  A one-name assignment returns at once, a "new"
\* behind it is not looked at; the "new" of a longer reference is refused.
LoftyAssign(s, ctx) ==
    IF Len(s.a) = 1 THEN Returns(<<>>)
    ELSE IF s.v = "new" THEN Raises(Exc("AtoError", <<>>))
    ELSE IF s.v = "name" THEN Raises(Exc("AtoError", <<>>))
    ELSE Returns(<<Item(s.a, [t |-> "value", v |-> s.w])>>)

\* Lofty.visitSimple_stmt
LoftySimple(s, ctx) ==
    CASE s.k = "assign"  -> LoftyAssign(s, ctx)
      [] s.k = "connect" -> LoftyConnect(s, ctx)
      [] s.k = "pin"     -> LoftyPindef(s, ctx)
      [] s.k = "signal"  -> LoftySignaldef(s, ctx)
      [] OTHER           -> Returns(<<>>)

\* BaseTranslator.visitStmt for Lofty (Lofty.visitBlockdef gives NOTHING)
LoftyStmt(s, ctx) ==
    IF s.k = "line"
    THEN visit_iterable_helper([j \in DOMAIN s.body |-> LoftySimple(s.body[j], ctx)])
    ELSE Returns(<<>>)

\* BaseTranslator.visitBlock for Lofty, on the src_ctx of a layer
LoftyBlock(blk, ctx) ==
    IF blk.inl
    THEN visit_iterable_helper(
            [j \in DOMAIN blk.body[1].body |-> LoftySimple(blk.body[1].body[j], ctx)])
    ELSE IF blk.body # <<>>
    THEN visit_iterable_helper([i \in DOMAIN blk.body |-> LoftyStmt(blk.body[i], ctx)])
    ELSE Raises(Exc("AttributeError", <<>>))

RECURSIVE ApplyLayersWriteFirst(_, _, _, _, _)
\* apply_replacements_from_objs with the directives of a layer written
\* into _known_replacements under their own names before the instance
\* context is read
ApplyLayersWriteFirst(objs, i, stack, known, commanded) ==
    IF i > Len(objs) THEN [exc |-> NoExc, known |-> known, commanded |-> commanded]
    ELSE IF objs[i].obj_def.replacements = EmptyDict
    THEN ApplyLayersWriteFirst(objs, i + 1, stack, known, commanded)
    ELSE [exc       |-> Exc("IndexError", <<>>),
          known     |-> [a \in (DOMAIN known)
                                 \cup {Join(".", r) : r \in DOMAIN objs[i].obj_def.replacements}
                           |-> IF a \in DOMAIN known THEN known[a]
                               ELSE objs[i].obj_def.replacements[
                                      CHOOSE r \in DOMAIN objs[i].obj_def.replacements :
                                         Join(".", r) = a]],
          commanded |-> commanded]

RECURSIVE ApplyLayers(_, _, _, _, _)
\* Lofty.apply_replacements_from_objs, from layer i of objs on.  stack is
\* _instance_context_stack as the call finds it: the new instance is
\* pushed only afterwards, so the top is the enclosing instance, and there
\* is no top while the root instance is being made.
ApplyLayers(objs, i, stack, known, commanded) ==
    IF i > Len(objs) THEN [exc |-> NoExc, known |-> known, commanded |-> commanded]
    ELSE LET reps == objs[i].obj_def.replacements
         IN  IF reps = EmptyDict THEN ApplyLayers(objs, i + 1, stack, known, commanded)
             ELSE IF stack = <<>>
             THEN [exc |-> Exc("IndexError", <<>>), known |-> known,
                   commanded |-> commanded]
             ELSE LET new == {r \in DOMAIN reps :
                                add_instance(Last(stack), Join(".", r)) \notin DOMAIN known}
                      key(r) == add_instance(Last(stack), Join(".", r))
                  IN  ApplyLayers(objs, i + 1, stack,
                        [a \in (DOMAIN known) \cup {key(r) : r \in new} |->
                            IF a \in DOMAIN known THEN known[a]
                            ELSE reps[CHOOSE r \in new : key(r) = a]],
                        commanded \cup {key(r) : r \in new})

apply_replacements_from_objs(objs, stack, known) ==
    ApplyLayers(objs, 1, stack, known, {})

\* all_internal_items.extend(internal_items), for layer i of
\* reversed(supers), whose block the visit v went through
VisitLayer(acc, blk, i, v) ==
    [items   |-> acc.items \o PrefixOutcome(i, v).items,
     exc     |-> v.exc,
     handled |-> acc.handled \o v.handled,
     att     |-> acc.att \cup PrefixOutcome(i, v).att,
     visits  |-> Append(acc.visits, VisitRec("Lofty", blk, v))]

RECURSIVE VisitLayers(_, _, _, _)
\* the loop of make_instance over reversed(supers), from layer i of rev
\* on: the items of all layers, or the exception of the first that raises
VisitLayers(rev, i, ctx, acc) ==
    IF i > Len(rev) \/ Raised(acc) THEN acc
    ELSE IF rev[i].src.k = "none" THEN VisitLayers(rev, i + 1, ctx, acc)
    ELSE VisitLayers(rev, i + 1, ctx,
            VisitLayer(acc, rev[i].src, i, LoftyBlock(rev[i].src, ctx)))

\* children: dict[Ref, Instance] = {k[0]: v for k, v in internal_by_type[Instance]}
ChildrenOf(items) ==
    LET d == DictOfItems(ItemsOfType(items, "Instance"))
    IN  [k \in {r[1] : r \in DOMAIN d} |-> d[<<k>>]]

RECURSIVE HasItemInChildren(_, _)
RECURSIVE KeyOrder(_, _, _)
\* the order of the keys of {k[0]: v for k, v in items}: a key keeps the
\* place of its first item
KeyOrder(items, i, acc) ==
    IF i > Len(items) THEN acc
    ELSE IF \E j \in DOMAIN acc : acc[j] = items[i].key[1]
         THEN KeyOrder(items, i + 1, acc)
         ELSE KeyOrder(items, i + 1, Append(acc, items[i].key[1]))

ChildNames(items) == KeyOrder(ItemsOfType(items, "Instance"), 1, <<>>)

\* _lookup_item_in_children does not raise "Unknown reference"
HasItemInChildren(children, ref) ==
    /\ ref # <<>>
    /\ ref[1] \in DOMAIN children
    /\ Len(ref) > 1 => HasItemInChildren(children[ref[1]].children, Tail(ref))

RECURSIVE lookup_item_in_children(_, _)
\* make_instance._lookup_item_in_children, where it does not raise
lookup_item_in_children(children, ref) ==
    IF Len(ref) = 1 THEN children[ref[1]]
    ELSE lookup_item_in_children(children[ref[1]].children, Tail(ref))

RECURSIVE WriteOverride(_, _, _, _)
\* to_override_in.override_data[key_name] = value, for the instance that
\* _lookup_item_in_children(children, ref) finds: the children afterwards
WriteOverride(children, ref, key_name, value) ==
    IF Len(ref) = 1
    THEN [children EXCEPT ![ref[1]].override_data = DictSet(@, key_name, value)]
    ELSE [children EXCEPT ![ref[1]].children =
                            WriteOverride(@, Tail(ref), key_name, value)]

RECURSIVE MakeLinks(_, _, _, _)
\* the "make links" loop of make_instance, from link definition i on
MakeLinks(defs, i, children, links) ==
    IF i > Len(defs) THEN [exc |-> NoExc, links |-> links]
    ELSE LET d == defs[i].val
         IN  IF ~HasItemInChildren(children, d.source)
                \/ ~HasItemInChildren(children, d.target)
             THEN [exc |-> Exc("AtoError", <<>>), links |-> links]
             ELSE LET source_instance == lookup_item_in_children(children, d.source)
                      target_instance == lookup_item_in_children(children, d.target)
                  IN  MakeLinks(defs, i + 1, children,
                        Append(links, [t      |-> "Link",
                                       src_ctx |-> d.src_ctx,
                                       parent |-> ObjRef(source_instance),
                                       source |-> ObjRef(source_instance),
                                       target |-> ObjRef(target_instance)]))

RECURSIVE ApplyOverrides(_, _, _)
\* the override loop of make_instance, from override i on
ApplyOverrides(ovs, i, children) ==
    IF i > Len(ovs) THEN [exc |-> NoExc, children |-> children]
    ELSE LET key == ovs[i].key
         IN  IF ~HasItemInChildren(children, Front(key))
             THEN [exc |-> Exc("AtoError", <<>>), children |-> children]
             ELSE ApplyOverrides(ovs, i + 1,
                    WriteOverride(children, Front(key), Last(key), ovs[i].val.v))

\* an instance built by a statement gets the identity of the pass on top
\* of the statement's path
StampItems(items, n) ==
    [j \in DOMAIN items |->
        IF items[j].val.t = "Instance"
        THEN [items[j] EXCEPT !.val.oid = <<n>> \o @]
        ELSE items[j]]

\* new_instance = Instance(...), the links left as the loop made them
NewInstanceLinksNotRepointed(new_ref, oid, supers, names, children, links) ==
    [t             |-> "Instance",
     oid           |-> oid,
     addr          |-> new_ref,
     supers        |-> supers,
     children      |-> children,
     names         |-> names,
     links         |-> links,
     data          |-> InstanceData(supers),
     override_data |-> EmptyDict]

\* new_instance = Instance(...), and link.parent = new_instance
NewInstance(new_ref, oid, supers, names, children, links) ==
    [t             |-> "Instance",
     oid           |-> oid,
     addr          |-> new_ref,
     supers        |-> supers,
     children      |-> children,
     names         |-> names,
     links         |-> [j \in DOMAIN links |->
                           [links[j] EXCEPT !.parent = [addr |-> new_ref, oid |-> oid]]],
     data          |-> InstanceData(supers),
     override_data |-> EmptyDict]

\* the end of make_instance, once the overrides have been written with ov:
\* self._output_cache[new_ref] = new_instance
MakeInstanceObj(new_ref, supers, S, links, names, ov) ==
    IF ov.exc.type # "none" THEN Fail(S, ov.exc)
    ELSE Ret([S EXCEPT !.insts = DictSet(@, new_ref,
                          NewInstance(new_ref, <<S.n>>, supers, names, ov.children, links))],
             NewInstance(new_ref, <<S.n>>, supers, names, ov.children, links))

\* make_instance, once the links have been made with mk: the overrides
MakeInstanceOverrides(new_ref, supers, S, items, mk) ==
    IF mk.exc.type # "none" THEN Fail(S, mk.exc)
    ELSE MakeInstanceObj(new_ref, supers, S, mk.links, ChildNames(items),
            ApplyOverrides(ItemsOfType(items, "value"), 1, ChildrenOf(items)))

\* make_instance, once the layers have been visited with vis: the
\* commanded replacements are popped (not if a visit raised), the children
\* are collected and the links made
MakeInstanceLinks(new_ref, supers, S, commanded, vis) ==
    IF Raised(vis)
    THEN Fail([S EXCEPT !.handled = @ \o vis.handled,
                        !.visits = @ \o vis.visits], vis.exc)
    ELSE MakeInstanceOverrides(new_ref, supers,
            [S EXCEPT !.handled = @ \o vis.handled,
                      !.visits = @ \o vis.visits,
                      !.known = [a \in (DOMAIN S.known) \ commanded |-> S.known[a]]],
            StampItems(vis.items, S.n),
            MakeLinks(ItemsOfType(StampItems(vis.items, S.n), "LinkDef"), 1,
                      ChildrenOf(StampItems(vis.items, S.n)), <<>>))

\* make_instance, once the replacements have been applied with ap: the
\* blocks of the layers are visited, least derived first
MakeInstanceVisit(new_ref, supers, S, ap) ==
    IF ap.exc.type # "none" THEN Fail([S EXCEPT !.known = ap.known], ap.exc)
    ELSE MakeInstanceLinks(new_ref, supers,
            [S EXCEPT !.known = ap.known, !.n = @ + 1], ap.commanded,
            VisitLayers(Reverse(supers), 1, new_ref,
               [items |-> <<>>, exc |-> NoExc, handled |-> <<>>,
                att |-> {}, visits |-> <<>>]))

\* Lofty.make_instance
make_instance(new_ref, super, S, stack) ==
    MakeInstanceVisit(new_ref, SuperChain(super), S,
        apply_replacements_from_objs(SuperChain(super), stack, S.known))

\* get_instance_tree storing the tree for the file of the address as well
StoreInstanceAlsoForFile(addr, m) ==
    IF m.exc.type # "none" THEN Fail(m.S, m.exc)
    ELSE Ret([m.S EXCEPT !.insts = DictSet(DictSet(@, addr, m.obj), get_file(addr), m.obj)],
             m.obj)

\* self._output_cache[addr] = obj, with the obj that make_instance gave as m
StoreInstance(addr, m) ==
    IF m.exc.type # "none" THEN Fail(m.S, m.exc)
    ELSE Ret([m.S EXCEPT !.insts = DictSet(@, addr, m.obj)], m.obj)

\* get_instance_tree for an address that is not in the cache, once the
\* layer has been got with l
InstanceOfLayer(addr, l) ==
    IF l.exc.type # "none" THEN Fail(l.S, l.exc)
    ELSE StoreInstance(addr, make_instance(addr, l.obj, l.S, <<>>))

\* Lofty.get_instance_tree
get_instance_tree(addr, S, src) ==
    IF addr \in DOMAIN S.insts THEN Ret(S, S.insts[addr])
    ELSE InstanceOfLayer(addr, get_obj_layer(addr, S, src, {}))

(***************************************************************************)
(* instance_methods.py: the queries on the instance cache.                 *)
(***************************************************************************)
\* get_links(addr): the pairs (link.source.addr, link.target.addr) of the
\* links that the cached instance holds
get_links(addr, cache) ==
    [j \in DOMAIN cache[addr].links |->
        <<cache[addr].links[j].source.addr, cache[addr].links[j].target.addr>>]

\* _get_instance, once get_instance_tree(root_addr) has come back as t:
\* return obj_cache[addr]
InstanceFromCache(addr, t) ==
    IF t.exc.type # "none" THEN Fail(t.S, t.exc)
    ELSE IF addr \in DOMAIN t.S.insts THEN Ret(t.S, t.S.insts[addr])
    ELSE Fail(t.S, Exc("KeyError", <<>>))

\* _get_instance(addr)
GetInstance(addr, S, src) ==
    IF addr \in DOMAIN S.insts THEN Ret(S, S.insts[addr])
    ELSE InstanceFromCache(addr, get_instance_tree(get_entry(addr), S, src))

\* get_children, once _get_instance(addr) has come back as g: child.addr for
\* the children in the order of the dict
ChildrenAddrs(g) ==
    IF g.exc.type # "none" THEN Fail(g.S, g.exc)
    ELSE Ret(g.S, [j \in DOMAIN g.obj.names |-> g.obj.children[g.obj.names[j]].addr])

\* get_children(addr), as the list of what it yields
get_children(addr, S, src) == ChildrenAddrs(GetInstance(addr, S, src))

RECURSIVE all_descendants(_, _, _)
RECURSIVE DescendantsOfChildren(_, _, _, _, _, _)

\* all_descendants, once all_descendants(child) has come back as d for
\* child i: what it yielded is yielded, then the next child
DescendantsNext(addr, kids, i, src, acc, d) ==
    IF d.exc.type # "none" THEN Fail(d.S, d.exc)
    ELSE DescendantsOfChildren(addr, kids, i + 1, d.S, src, acc \o d.obj)

\* the loop of all_descendants from child i on, and then: yield addr
DescendantsOfChildren(addr, kids, i, S, src, acc) ==
    IF i > Len(kids) THEN Ret(S, Append(acc, addr))
    ELSE DescendantsNext(addr, kids, i, src, acc, all_descendants(kids[i], S, src))

\* all_descendants, once get_children(addr) has come back as ch
DescendantsFrom(addr, src, ch) ==
    IF ch.exc.type # "none" THEN Fail(ch.S, ch.exc)
    ELSE DescendantsOfChildren(addr, ch.obj, 1, ch.S, src, <<>>)

\* all_descendants(addr), as the list of what it yields
all_descendants(addr, S, src) == DescendantsFrom(addr, src, get_children(addr, S, src))

\* the last place of a separator in an address, for str.rsplit(sep, 1)
LastAt(places) == CHOOSE i \in places : \A j \in places : j <= i

\* get_parent with the root path returned for every instance path
get_parent_root_only(addr) ==
    IF DoubleColons(addr) = {} THEN None
    ELSE IF LastAt(DoubleColons(addr)) + 2 <= Len(addr)
         THEN SubSeq(addr, 1, LastAt(DoubleColons(addr)) - 1)
         ELSE None

\* get_parent(addr)
get_parent(addr) ==
    IF DoubleColons(addr) = {} THEN None
    ELSE LET at == LastAt(DoubleColons(addr))
             root_path == SubSeq(addr, 1, at - 1)
             instance_path == SubSeq(addr, at + 2, Len(addr))
         IN  IF \E i \in DOMAIN instance_path : instance_path[i] = "."
             THEN SubSeq(addr, 1, LastAt({i \in DOMAIN addr : addr[i] = "."}) - 1)
             ELSE IF instance_path # <<>> THEN root_path
             ELSE None

\* a pass_list that is a list of addresses, and one that is a string
PassList(addrs) == [str |-> FALSE, v |-> addrs]

PassString(text) == [str |-> TRUE, v |-> <<text>>]

\* x in pass_list: membership in a list, a substring test on a string
InPassList(x, pass_list) ==
    IF pass_list.str
    THEN \E i \in 0..(Len(pass_list.v[1]) - Len(x)) :
            SubSeq(pass_list.v[1], i + 1, i + Len(x)) = x
    ELSE \E j \in DOMAIN pass_list.v : pass_list.v[j] = x

\* the _filter that _make_dumb_matcher(pass_list) returns, called with addr
make_dumb_matcher(pass_list, addr, S) ==
    IF addr \notin DOMAIN S.insts THEN Fail(S, Exc("KeyError", <<>>))
    ELSE Ret(S, \E i \in DOMAIN S.insts[addr].supers :
                   InPassList(S.insts[addr].supers[i].obj_def.address, pass_list))

match_components(addr, S) ==
    make_dumb_matcher(PassList(<<BuiltinAddr("Component")>>), addr, S)

match_modules(addr, S) ==
    make_dumb_matcher(PassList(<<BuiltinAddr("Module")>>), addr, S)

match_signals(addr, S) ==
    make_dumb_matcher(PassList(<<BuiltinAddr("Signal")>>), addr, S)

match_pins(addr, S) ==
    make_dumb_matcher(PassString(BuiltinAddr("Pin")), addr, S)

match_pins_and_signals(addr, S) ==
    make_dumb_matcher(PassList(<<BuiltinAddr("Pin"), BuiltinAddr("Signal")>>), addr, S)

match_interfaces(addr, S) ==
    make_dumb_matcher(PassList(<<BuiltinAddr("Interface")>>), addr, S)

\* the second element is the two adjacent string literals
\* "<Built-in>:Module" "<Built-in>:Signal", which Python joins into one
match_sentinels(addr, S) ==
    make_dumb_matcher(
        PassList(<<BuiltinAddr("Component"),
                   BuiltinAddr("Module") \o BuiltinAddr("Signal"),
                   BuiltinAddr("Pin"),
                   BuiltinAddr("Interface")>>), addr, S)

MatcherNames ==
    {"match_components", "match_modules", "match_signals", "match_pins",
     "match_pins_and_signals", "match_interfaces", "match_sentinels"}

Matcher(m, addr, S) ==
    CASE m = "match_components"       -> match_components(addr, S)
      [] m = "match_modules"          -> match_modules(addr, S)
      [] m = "match_signals"          -> match_signals(addr, S)
      [] m = "match_pins"             -> match_pins(addr, S)
      [] m = "match_pins_and_signals" -> match_pins_and_signals(addr, S)
      [] m = "match_interfaces"       -> match_interfaces(addr, S)
      [] m = "match_sentinels"        -> match_sentinels(addr, S)

(***************************************************************************)
(* The source trees the compiler is run on.                                *)
(***************************************************************************)
\* one-name references
R1(a) == <<a>>

\* layered data, a pin override, a link over two layers and a link between
\* a pin and a signal declared in the connect statement
SrcShadow ==
    [f \in {"f"} |->
        << BlockDef("component", "Base",
             << Line(<<AssignLit(R1("x"), "1")>>),
                Line(<<AssignLit(R1("y"), "5")>>),
                Line(<<PinDef("p1")>>),
                Line(<<PinDef("s2")>>) >>),
           BlockFrom("component", "Derived", R1("Base"),
             << Line(<<AssignLit(R1("x"), "2")>>),
                Line(<<SignalDef("s1")>>),
                Line(<<AssignLit(<<"p1", "x">>, "7")>>),
                Line(<<Connect("ref", R1("p1"), "ref", R1("s1"))>>),
                Line(<<Connect("pin", R1("p2"), "signal", R1("s2"))>>) >>),
           BlockInline("interface", "I", <<SignalDef("io")>>) >>]

\* instantiation of a local and of an imported block, and an override of
\* an instantiated child
SrcTop ==
    [f \in {"f", "g"} |->
        IF f = "g"
        THEN << BlockInline("module", "Foo", <<PinDef("p1")>>) >>
        ELSE << Line(<<ImportStmt(R1("Foo"), "g")>>),
                BlockDef("component", "R",
                  << Line(<<AssignLit(R1("value"), "10k")>>) >>),
                BlockDef("module", "Top",
                  << Line(<<AssignNew(R1("r1"), R1("R"))>>),
                     Line(<<AssignNew(R1("f1"), R1("Foo"))>>) >>),
                BlockDef("module", "Top2",
                  << Line(<<AssignNew(R1("r1"), R1("R"))>>),
                     Line(<<AssignLit(<<"r1", "value">>, "4k7")>>) >>) >>]

\* a retype directive next to the instantiation it is about and an
\* override through the retyped child, a derived block with another
\* directive for the same child, the same child name in a block without
\* directive, and two blocks that name each other as super
SrcRetype ==
    [f \in {"f"} |->
        << BlockInline("module", "X", <<PinDef("a")>>),
           BlockInline("module", "Y", <<PinDef("b")>>),
           BlockDef("module", "Foo",
             << Line(<<RetypeStmt(R1("bar"), R1("Y"))>>),
                Line(<<AssignNew(R1("bar"), R1("X"))>>),
                Line(<<AssignLit(<<"bar", "v">>, "1")>>) >>),
           BlockFrom("module", "Foo2", R1("Foo"),
             << Line(<<RetypeStmt(R1("bar"), R1("X"))>>) >>),
           BlockDef("module", "Baz",
             << Line(<<AssignNew(R1("bar"), R1("X"))>>) >>),
           BlockFrom("module", "Cy", R1("Cz"), <<Line(<<PinDef("c")>>)>>),
           BlockFrom("module", "Cz", R1("Cy"), <<Line(<<PinDef("d")>>)>>) >>]

\* blocks with failing statements: on several lines, on one line, and for
\* the instance builder; an override and a connection through a child that
\* does not exist
SrcErrors ==
    [f \in {"f"} |->
        << BlockDef("module", "E",
             << Line(<<AssignName(R1("a"), R1("b"))>>),
                Line(<<AssignLit(R1("c"), "1")>>),
                Line(<<AssignName(R1("d"), R1("e"))>>) >>),
           BlockDef("module", "E1",
             << Line(<<AssignName(R1("a"), R1("b")),
                       AssignLit(R1("c"), "1"),
                       AssignName(R1("d"), R1("e"))>>) >>),
           BlockDef("module", "L",
             << Line(<<PinDef("p")>>),
                Line(<<AssignNew(<<"p", "x">>, R1("E"))>>),
                Line(<<AssignLit(<<"p", "y">>, "3")>>) >>),
           BlockDef("module", "U",
             << Line(<<PinDef("p")>>),
                Line(<<AssignLit(<<"p", "z", "x">>, "1")>>) >>),
           BlockDef("module", "V",
             << Line(<<PinDef("p")>>),
                Line(<<Connect("ref", R1("p"), "ref", R1("q"))>>) >>) >>]

\* nested scopes with imports and local definitions of the same first name,
\* and a local definition with the name of a built-in
SrcLookup ==
    [f \in {"f", "g", "h"} |->
        CASE f = "g" ->
               << BlockDef("module", "A",
                    << BlockInline("module", "C",
                                   <<PinDef("q"), AssignLit(R1("v"), "9")>>),
                       Line(<<PinDef("p")>>),
                       Line(<<AssignLit(R1("w"), "3")>>) >>) >>
          [] f = "f" ->
               << Line(<<ImportStmt(R1("A"), "g")>>),
                  BlockInline("module", "B", <<PinDef("b")>>),
                  BlockDef("module", "M",
                    << Line(<<ImportStmt(<<"A", "C">>, "g")>>),
                       BlockFrom("module", "N", R1("A"), <<Line(<<PinDef("n")>>)>>),
                       BlockFrom("module", "K", <<"A", "C">>,
                                 <<Line(<<PinDef("k")>>)>>) >>) >>
          [] f = "h" ->
               << Line(<<ImportStmt(R1("A"), "g")>>),
                  BlockInline("module", "A", <<PinDef("z")>>),
                  BlockInline("module", "B", <<PinDef("b")>>),
                  BlockInline("module", "COMPONENT", <<PinDef("c")>>),
                  BlockDef("module", "M",
                    << Line(<<ImportStmt(<<"A", "C">>, "g")>>),
                       BlockFrom("module", "N", R1("A"),
                                 <<Line(<<PinDef("n")>>)>>) >>) >>]

Programs == {"shadow", "top", "retype", "errors", "lookup"}

Source(p) ==
    CASE p = "shadow" -> SrcShadow
      [] p = "top"    -> SrcTop
      [] p = "retype" -> SrcRetype
      [] p = "errors" -> SrcErrors
      [] p = "lookup" -> SrcLookup

\* the address file:e1.e2...
Addr(file, entry) == AddrFromRef(<<file>>, entry)

\* the addresses the getters are called with
Requests(p) ==
    CASE p = "shadow" -> {Addr("f", <<"Base">>), Addr("f", <<"Derived">>),
                          Addr("f", <<"Missing">>)}
      [] p = "top"    -> {Addr("f", <<"Top">>), Addr("f", <<"Top2">>),
                          Addr("f", <<"R">>), Addr("g", <<"Foo">>), Addr("f", <<>>)}
      [] p = "retype" -> {Addr("f", <<"Foo">>), Addr("f", <<"Baz">>),
                          Addr("f", <<"Foo2">>), Addr("f", <<"Nope">>),
                          Addr("f", <<"Cy">>)}
      [] p = "errors" -> {Addr("f", <<"E">>), Addr("f", <<"E1">>), Addr("f", <<"L">>),
                          Addr("f", <<"U">>), Addr("f", <<"V">>)}
      [] p = "lookup" -> {Addr("f", <<"M", "N">>), Addr("f", <<"M", "K">>),
                          Addr("h", <<"M", "N">>), Addr("h", <<"B">>)}

\* the definitions in whose closure references are looked up
LookupContexts(p) ==
    CASE p = "shadow" -> {Addr("f", <<"Derived">>)}
      [] p = "top"    -> {Addr("f", <<"Top">>), Addr("g", <<"Foo">>)}
      [] p = "retype" -> {Addr("f", <<"Foo">>)}
      [] p = "errors" -> {Addr("f", <<"E">>)}
      [] p = "lookup" -> {Addr("f", <<"M", "N">>), Addr("f", <<"B">>),
                          Addr("h", <<"M", "N">>), Addr("h", <<"B">>)}

\* the addresses the queries of instance_methods are asked about
QueryAddrs(p) ==
    CASE p = "shadow" -> {Addr("f", <<"Derived">>),
                          add_instance(Addr("f", <<"Derived">>), <<"p1">>)}
      [] p = "top"    -> {Addr("f", <<"Top">>)}
      [] p = "retype" -> {Addr("f", <<"Foo">>)}
      [] p = "errors" -> {Addr("f", <<"E">>)}
      [] p = "lookup" -> {add_instance(add_instance(Addr("f", <<"B">>), <<"x">>),
                                       <<"y">>)}

\* the references looked up in the closure of a registered definition
LookupRefs ==
    {<<"A">>, <<"A", "C">>, <<"B">>, <<"MODULE">>, <<"COMPONENT">>, <<"Zz">>}

(***************************************************************************)
(* The state machine: one compiler (a Scoop, a Dizzy and a Lofty wired     *)
(* together) on one source tree, called from outside getter by getter.     *)
(***************************************************************************)
VARIABLES
    prog,    \* the source tree the compiler runs on
    defs,    \* Scoop._output_cache
    layers,  \* Dizzy._output_cache
    insts,   \* Lofty._output_cache
    known,   \* Lofty._known_replacements
    n,       \* number of object-building passes so far
    calls,   \* number of calls made
    last,    \* the last call: what was asked and what came back
    first    \* <<getter, address>> -> identity of the object that the first
             \* successful call returned

vars == <<prog, defs, layers, insts, known, n, calls, last, first>>

NoCall ==
    [op |-> "none", addr |-> <<>>, ref |-> <<>>, exc |-> NoExc, obj |-> NoObj,
     handled |-> <<>>, visits |-> <<>>, lk |-> <<>>, res |-> <<>>]

Init ==
    /\ prog \in Programs
    /\ defs = EmptyDict
    /\ layers = BUILTINS_BY_ADDR
    /\ insts = EmptyDict
    /\ known = EmptyDict
    /\ n = 0
    /\ calls = 0
    /\ last = NoCall
    /\ first = EmptyDict

\* the state a call starts from
CallState ==
    [defs |-> defs, layers |-> layers, insts |-> insts, known |-> known,
     n |-> n, handled |-> <<>>, visits |-> <<>>]

\* the effect of the getter call op(addr) that came back as r
Called(op, addr, r) ==
    /\ calls < MaxCalls
    /\ calls' = calls + 1
    /\ defs' = r.S.defs
    /\ layers' = r.S.layers
    /\ insts' = r.S.insts
    /\ known' = r.S.known
    /\ n' = r.S.n
    /\ last' = [op |-> op, addr |-> addr, ref |-> <<>>, exc |-> r.exc, obj |-> r.obj,
                handled |-> r.S.handled, visits |-> r.S.visits, lk |-> <<>>,
                res |-> <<>>]
    /\ first' = IF r.exc.type = "none" /\ <<op, addr>> \notin DOMAIN first
                THEN DictSet(first, <<op, addr>>, r.obj.oid)
                ELSE first
    /\ UNCHANGED prog

GetObjDef(addr) == Called("get_obj_def", addr, get_obj_def(addr, CallState, Source(prog)))

GetObjLayer(addr) ==
    Called("get_obj_layer", addr, get_obj_layer(addr, CallState, Source(prog), {}))

GetInstanceTree(addr) ==
    Called("get_instance_tree", addr, get_instance_tree(addr, CallState, Source(prog)))

\* lookup_obj_in_closure(context, ref) for a registered definition
LookupObjInClosure(addr, ref) ==
    /\ calls < MaxCalls
    /\ addr \in DOMAIN defs
    /\ calls' = calls + 1
    /\ LET r == lookup_obj_in_closure(defs[addr], ref)
       IN  last' = [op |-> "lookup", addr |-> addr, ref |-> ref, exc |-> r.exc,
                    obj |-> NoObj, handled |-> <<>>, visits |-> <<>>,
                    lk |-> <<r>>, res |-> <<>>]
    /\ UNCHANGED <<prog, defs, layers, insts, known, n, first>>

\* the effect of the query op(addr) of instance_methods that came back as r:
\* res holds what it returned
Queried(op, addr, r) ==
    /\ calls < MaxCalls
    /\ calls' = calls + 1
    /\ defs' = r.S.defs
    /\ layers' = r.S.layers
    /\ insts' = r.S.insts
    /\ known' = r.S.known
    /\ n' = r.S.n
    /\ last' = [op |-> op, addr |-> addr, ref |-> <<>>, exc |-> r.exc, obj |-> NoObj,
                handled |-> r.S.handled, visits |-> r.S.visits, lk |-> <<>>,
                res |-> <<r.obj>>]
    /\ UNCHANGED <<prog, first>>

GetChildren(addr) ==
    Queried("get_children", addr, get_children(addr, CallState, Source(prog)))

\* one of the category matchers, called with addr
Match(m, addr) == Queried(m, addr, Matcher(m, addr, CallState))

AllDescendants(addr) ==
    Queried("all_descendants", addr, all_descendants(addr, CallState, Source(prog)))

GetParent(addr) == Queried("get_parent", addr, Ret(CallState, get_parent(addr)))

Next ==
    \/ \E addr \in Requests(prog) : GetObjDef(addr)
    \/ \E addr \in Requests(prog) : GetObjLayer(addr)
    \/ \E addr \in Requests(prog) : GetInstanceTree(addr)
    \/ \E addr \in LookupContexts(prog) : \E ref \in LookupRefs :
          LookupObjInClosure(addr, ref)
    \/ \E addr \in QueryAddrs(prog) : GetChildren(addr)
    \/ \E addr \in QueryAddrs(prog) : GetParent(addr)
    \/ \E addr \in QueryAddrs(prog) : AllDescendants(addr)
    \/ \E addr \in QueryAddrs(prog) : \E m \in MatcherNames : Match(m, addr)

Spec == Init /\ [][Next]_vars

(***************************************************************************)
(* address.py on its own: addresses are built from parts and taken apart   *)
(* again.                                                                  *)
(***************************************************************************)
\* the parts addresses are built from; None is an absent section
FileParts == {<<"f">>, <<"g">>}

EntryParts == {None, <<"A">>, <<"B">>, <<"A", ".", "B">>}

InstanceParts == {None, <<"x">>, <<"y">>, <<"x", ".", "y">>}

\* AddrStr.from_parts(file, entry, instance), and the three sections read
\* back from the address
FromParts(file, entry, instance) ==
    /\ calls < MaxCalls
    /\ calls' = calls + 1
    /\ last' = [NoCall EXCEPT
                  !.op = "from_parts",
                  !.addr = from_parts(file, entry, instance),
                  !.lk = <<file, entry, instance>>,
                  !.res = <<get_file(from_parts(file, entry, instance)),
                           get_entry_section(from_parts(file, entry, instance)),
                           get_instance_section(from_parts(file, entry, instance))>>]
    /\ UNCHANGED <<prog, defs, layers, insts, known, n, first>>

AddressNext ==
    \E file \in FileParts : \E entry \in EntryParts : \E instance \in InstanceParts :
        FromParts(file, entry, instance)

AddressSpec == Init /\ [][AddressNext]_vars

(***************************************************************************)
(* Properties of the getters and their caches.                             *)
(***************************************************************************)
Getters == {"get_obj_def", "get_obj_layer", "get_instance_tree"}

\* C1: a getter call that succeeds for an address returns the very object
\* that the first successful call of that getter for the address returned,
\* whatever calls were made in between.
C1_SameObjectAsFirst ==
    (last.op \in Getters /\ last.exc.type = "none")
        => last.obj.oid = first[<<last.op, last.addr>>]

\* C2: the three caches are append-only: no call, successful or failing,
\* removes an address from a cache or binds it to another object.
C2_AppendOnly ==
    [][ /\ \A a \in DOMAIN defs :
              a \in DOMAIN defs' /\ defs'[a].oid = defs[a].oid
        /\ \A a \in DOMAIN layers :
              a \in DOMAIN layers' /\ layers'[a].oid = layers[a].oid
        /\ \A a \in DOMAIN insts :
              a \in DOMAIN insts' /\ insts'[a].oid = insts[a].oid ]_vars

(***************************************************************************)
(* Properties of the instances.                                            *)
(***************************************************************************)
RECURSIVE InstancesIn(_)
\* an instance and its descendants
InstancesIn(inst) ==
    {inst} \cup UNION {InstancesIn(inst.children[c]) : c \in DOMAIN inst.children}

\* every instance held by the instance cache, directly or as a descendant
AllInstances == UNION {InstancesIn(insts[a]) : a \in DOMAIN insts}

\* the layers of the super chain whose own data defines k
LayersDefining(inst, k) == {i \in DOMAIN inst.supers : k \in DOMAIN inst.supers[i].data}

\* the keys that an instance's overrides or layers define
KeysOf(inst) ==
    (DOMAIN inst.override_data)
    \cup UNION {DOMAIN inst.supers[i].data : i \in DOMAIN inst.supers}

\* the own override, else the value of the most-derived layer defining k
MostSpecific(inst, k) ==
    IF k \in DOMAIN inst.override_data THEN inst.override_data[k]
    ELSE LET i == CHOOSE i \in LayersDefining(inst, k) :
                    \A j \in LayersDefining(inst, k) : i <= j
         IN  inst.supers[i].data[k]

\* C3: reading key k from an instance's merged view gives the instance's
\* own override of k when there is one, and else the value of k in the
\* first layer of the super chain (most-derived first) that defines k.
C3_MergedView ==
    \A inst \in AllInstances :
        \A k \in KeysOf(inst) :
            DataHas(inst, k) /\ DataGet(inst, k) = MostSpecific(inst, k)

\* Derived (x = 2) over Base (x = 1, y = 5) reads x as 2 and y as 5, Base
\* alone reads x as 1, and the pin p1 of Derived reads its own override
C3_Witness ==
    /\ prog = "shadow"
    /\ Addr("f", <<"Derived">>) \in DOMAIN insts
    /\ Addr("f", <<"Base">>) \in DOMAIN insts
    /\ LET d == insts[Addr("f", <<"Derived">>)]
           b == insts[Addr("f", <<"Base">>)]
       IN  /\ Len(d.supers) >= 2
           /\ "x" \in DOMAIN d.supers[1].data /\ d.supers[1].data["x"] = "2"
           /\ "x" \in DOMAIN d.supers[2].data /\ d.supers[2].data["x"] = "1"
           /\ DataGet(d, "x") = "2"
           /\ DataGet(d, "y") = "5"
           /\ DataGet(b, "x") = "1"
           /\ "p1" \in DOMAIN d.children
           /\ "x" \in DOMAIN d.children["p1"].override_data
           /\ DataGet(d.children["p1"], "x") = "7"

\* the simple statements written in a block
BlockStmts(blk) ==
    IF blk.k = "none" THEN {}
    ELSE UNION {Range(blk.body[i].body) :
                    i \in {j \in DOMAIN blk.body : blk.body[j].k = "line"}}

\* the statement is  name = new T  with a one-segment name
IsNewChild(s) == s.k = "assign" /\ s.v = "new" /\ Len(s.a) = 1

\* the names a chain of layers declares as children
DeclaredChildren(chain) ==
    {s.a[1] : s \in {t \in UNION {BlockStmts(chain[i].src) : i \in DOMAIN chain} :
                        t.k \in {"pin", "signal"} \/ IsNewChild(t)}}

\* no statement of the chain is refused by the instance builder
NoneRefused(chain) ==
    \A i \in DOMAIN chain : \A s \in BlockStmts(chain[i].src) :
        ~Raised(LoftySimple(s, last.addr))

\* C4: an assignment c1...cn.k = v of a block is applied, when the block is
\* instantiated, to the descendant reached through the children c1...cn,
\* whose merged view then reads k as v.
C4_OverrideReachesDescendant ==
    (last.op = "get_instance_tree" /\ last.addr \in DOMAIN layers
        /\ NoneRefused(SuperChain(layers[last.addr])))
    => LET chain == SuperChain(layers[last.addr])
       IN  \A i \in DOMAIN chain : \A s \in BlockStmts(chain[i].src) :
              (s.k = "assign" /\ s.v = "lit" /\ Len(s.a) > 1
                  /\ s.a[1] \in DeclaredChildren(chain))
              => /\ last.exc.type = "none"
                 /\ HasItemInChildren(last.obj.children, Front(s.a))
                 /\ DataGet(lookup_item_in_children(last.obj.children, Front(s.a)),
                            Last(s.a)) = s.w

\* C5: every statement  name = new T  of an instantiated block gives the
\* instance a child under name whose super chain starts at the layer of
\* the definition that T resolves to through the closure.
C5_NewGivesChild ==
    (last.op = "get_instance_tree" /\ last.exc.type = "none")
    => \A i \in DOMAIN last.obj.supers : \A s \in BlockStmts(last.obj.supers[i].src) :
          (IsNewChild(s) /\ s.a \notin DOMAIN last.obj.supers[i].obj_def.replacements)
          => /\ s.a[1] \in DOMAIN last.obj.children
             /\ last.obj.children[s.a[1]].addr = add_instance(last.addr, s.a)
             /\ last.obj.children[s.a[1]].supers # <<>>
             /\ last.obj.children[s.a[1]].supers[1].obj_def.address
                  = lookup_obj_in_closure(last.obj.supers[i].obj_def, s.b).addr

\* C6: when a block holds the retype directive  x -> Y  and the statement
\* x = new X, instantiating the block gives a child x whose super chain
\* starts at the layer of Y.
C6_RetypedChild ==
    (last.op = "get_instance_tree" /\ last.addr \in DOMAIN layers)
    => LET chain == SuperChain(layers[last.addr])
       IN  \A i \in DOMAIN chain : \A s \in BlockStmts(chain[i].src) :
              (IsNewChild(s) /\ s.a \in DOMAIN chain[i].obj_def.replacements)
              => /\ last.exc.type = "none"
                 /\ s.a[1] \in DOMAIN last.obj.children
                 /\ last.obj.children[s.a[1]].supers # <<>>
                 /\ last.obj.children[s.a[1]].supers[1].obj_def.address
                      = lookup_obj_in_closure(chain[i].obj_def,
                            chain[i].obj_def.replacements[s.a].new_super_ref).addr

\* C7: a child that is instantiated in a block without a retype directive
\* for its name has the type its statement names, whatever was
\* instantiated before, and no replacement stays known after the call.
C7_RetypeStaysInBlock ==
    (last.op = "get_instance_tree" /\ last.exc.type = "none"
        /\ \A i \in DOMAIN last.obj.supers :
              last.obj.supers[i].obj_def.replacements = EmptyDict)
    => /\ known = EmptyDict
       /\ \A i \in DOMAIN last.obj.supers :
            \A s \in BlockStmts(last.obj.supers[i].src) :
              IsNewChild(s)
              => /\ s.a[1] \in DOMAIN last.obj.children
                 /\ last.obj.children[s.a[1]].supers # <<>>
                 /\ last.obj.children[s.a[1]].supers[1].obj_def.address
                      = lookup_obj_in_closure(last.obj.supers[i].obj_def, s.b).addr

(***************************************************************************)
(* Properties of the visit of a block.                                     *)
(***************************************************************************)
\* the paths of the statements of a block: <<i>> for its i-th statement,
\* <<i, j>> for the j-th simple statement of that line (<<j>> when the
\* body stands on the header's line)
StmtPaths(blk) ==
    IF blk.inl THEN {<<j>> : j \in DOMAIN blk.body[1].body}
    ELSE {<<i>> : i \in DOMAIN blk.body}
         \cup UNION {{<<i, j>> : j \in DOMAIN blk.body[i].body} :
                        i \in {l \in DOMAIN blk.body : blk.body[l].k = "line"}}

\* the visitor who raises an error on the simple statement s
Refuses(who, s) ==
    IF who = "Dizzy" THEN Raised(DizzySimple(s)) ELSE Raised(LoftySimple(s, <<>>))

\* the paths of the simple statements of a block that the visitor refuses
FailingPaths(who, blk) ==
    IF blk.inl THEN {<<j>> : j \in {l \in DOMAIN blk.body[1].body :
                                        Refuses(who, blk.body[1].body[l])}}
    ELSE UNION {{<<i, j>> : j \in {m \in DOMAIN blk.body[i].body :
                                        Refuses(who, blk.body[i].body[m])}} :
                    i \in {l \in DOMAIN blk.body : blk.body[l].k = "line"}}

RECURSIVE LeafErrors(_)
RECURSIVE LeafErrorsFrom(_, _)
\* the errors of the groups errs[j], errs[j + 1], ..., one after the other
LeafErrorsFrom(errs, j) ==
    IF j > Len(errs) THEN <<>>
    ELSE LeafErrors(errs[j]) \o LeafErrorsFrom(errs, j + 1)

\* the errors that a raised exception carries, groups flattened
LeafErrors(e) ==
    IF e.type = "ExceptionGroup" THEN LeafErrorsFrom(e.errs, 1) ELSE <<e>>

\* how many of the errors are about the statement at path p
ErrorsAt(errs, p) == Cardinality({j \in DOMAIN errs : errs[j].at = p})

\* C8: the visit of a block attempts every statement of the block, raises
\* one group holding exactly one error for each failing statement, and
\* each of these errors went to the error handler exactly once.
C8_AllStatementsAttempted ==
    \A j \in DOMAIN last.visits :
        LET v == last.visits[j]
            failing == FailingPaths(v.who, v.blk)
        IN  /\ StmtPaths(v.blk) \subseteq v.att
            /\ (failing = {}) => v.exc.type = "none"
            /\ (failing # {}) =>
                  /\ v.exc.type = "ExceptionGroup"
                  /\ Len(LeafErrors(v.exc)) = Cardinality(failing)
                  /\ \A p \in failing : ErrorsAt(LeafErrors(v.exc), p) = 1
            /\ \A p \in failing : ErrorsAt(v.handled, p) = 1
            /\ Len(v.handled) = Cardinality(failing)

(***************************************************************************)
(* Properties of the closure lookup.                                       *)
(***************************************************************************)
\* the scope has a local definition or an import whose first segment is
\* the first segment of ref
MatchesLead(scope, ref) == HasObjLead(scope, ref) \/ ImportLeads(scope, ref) # {}

\* the scope has both
AmbiguousIn(scope, ref) == HasObjLead(scope, ref) /\ ImportLeads(scope, ref) # {}

\* the index of the innermost scope matching the first segment, 0 if none
FirstMatch(closure, ref) ==
    LET m == {i \in DOMAIN closure : MatchesLead(closure[i], ref)}
    IN  IF m = {} THEN 0 ELSE CHOOSE i \in m : \A j \in m : i <= j

\* C9: the lookup ends at the innermost scope that matches the first
\* segment of the reference: a local definition gives its address extended
\* by the remaining segments, an import gives its target address.
C9_InnermostMatchDecides ==
    (last.op = "lookup"
        /\ FirstMatch(defs[last.addr].closure, last.ref) # 0
        /\ ~AmbiguousIn(defs[last.addr].closure[
                            FirstMatch(defs[last.addr].closure, last.ref)], last.ref))
    => LET i == FirstMatch(defs[last.addr].closure, last.ref)
           scope == defs[last.addr].closure[i]
           r == last.lk[1]
       IN  /\ r.exc.type = "none"
           /\ r.scope = i
           /\ HasObjLead(scope, last.ref)
                 => r.addr = LocalDefAddr(scope, last.ref)
           /\ ~HasObjLead(scope, last.ref)
                 => r.addr \in {scope.imports[q].obj_addr :
                                    q \in ImportLeads(scope, last.ref)}

\* C10: the lookup fails as ambiguous exactly when the innermost scope
\* matching the first segment holds both a local definition and an import
\* with that first segment.
C10_AmbiguousExactly ==
    (last.op = "lookup")
    => (last.exc.type = "AtoAmbiguousReferenceError"
        <=> /\ FirstMatch(defs[last.addr].closure, last.ref) # 0
            /\ AmbiguousIn(defs[last.addr].closure[
                              FirstMatch(defs[last.addr].closure, last.ref)], last.ref))

\* the scope has a local definition for the first segment of ref, or an
\* import of ref
Resolves(scope, ref) == HasObjLead(scope, ref) \/ ref \in DOMAIN scope.imports

\* C11: when no scope of the closure matches the reference, the lookup
\* gives the address of the built-in layer of that name, and fails if
\* there is no built-in of that name; a reference that a scope defines or
\* imports is never resolved to the built-in.
C11_BuiltinFallback ==
    (last.op = "lookup")
    => LET closure == defs[last.addr].closure
           r == last.lk[1]
       IN  /\ (FirstMatch(closure, last.ref) = 0 /\ last.ref \in DOMAIN BUILTINS_BY_REF)
                 => /\ r.exc.type = "none"
                    /\ r.addr = BUILTINS_BY_REF[last.ref].obj_def.address
                    /\ r.addr \in DOMAIN BUILTINS_BY_ADDR
           /\ (FirstMatch(closure, last.ref) = 0 /\ last.ref \notin DOMAIN BUILTINS_BY_REF)
                 => r.exc.type = "KeyError"
           /\ (\E i \in DOMAIN closure : Resolves(closure[i], last.ref))
                 => ~(r.exc.type = "none" /\ r.addr \in DOMAIN BUILTINS_BY_ADDR)

\* COMPONENT looked up where no scope defines it gives the built-in; the
\* lookup is made from a file that holds other definitions and imports
C11_Witness ==
    /\ last.op = "lookup"
    /\ last.ref = <<"COMPONENT">>
    /\ defs[last.addr].closure # <<>>
    /\ FirstMatch(defs[last.addr].closure, last.ref) = 0
    /\ last.exc.type = "none"
    /\ last.lk[1].addr = BuiltinAddr("Component")

\* the statements of a chain of layers
ChainStmts(chain) == UNION {BlockStmts(chain[i].src) : i \in DOMAIN chain}

\* the names a chain of layers declares as pins or signals, by a statement
\* of their own or inside a connect statement
LeafChildren(chain) ==
    {s.a[1] : s \in {t \in ChainStmts(chain) :
                        \/ t.k \in {"pin", "signal"}
                        \/ t.k = "connect" /\ t.v \in {"pin", "signal"}}}
    \cup {s.b[1] : s \in {t \in ChainStmts(chain) :
                        t.k = "connect" /\ t.w \in {"pin", "signal"}}}

\* the path names a child that the chain does not declare: its first
\* segment is no child, or it goes on below a pin or signal
UnknownPath(chain, path) ==
    \/ path[1] \notin DeclaredChildren(chain) \cup LeafChildren(chain)
    \/ Len(path) > 1 /\ path[1] \in LeafChildren(chain)

\* the chain holds an override or a connection through an unknown child
HasUnknownPath(chain) ==
    \E s \in ChainStmts(chain) :
        \/ s.k = "assign" /\ s.v = "lit" /\ Len(s.a) > 1 /\ UnknownPath(chain, Front(s.a))
        \/ s.k = "connect" /\ (UnknownPath(chain, s.a) \/ UnknownPath(chain, s.b))

\* C12: instantiating a block with an override or a connection through a
\* child that does not exist fails with an error of the compiler that
\* carries the source location, and leaves no instance of the block.
C12_UnknownChildIsLocatedError ==
    (last.op = "get_instance_tree" /\ last.addr \in DOMAIN layers
        /\ NoneRefused(SuperChain(layers[last.addr]))
        /\ HasUnknownPath(SuperChain(layers[last.addr])))
    => /\ IsAtoError(last.exc)
       /\ last.exc.ctx
       /\ last.addr \notin DOMAIN insts

\* the references to the descendants of an instance
Descendants(inst) == {ObjRef(d) : d \in InstancesIn(inst) \ {inst}}

\* C13: every link of an instance has the instance as parent, and its
\* source and target are the instances that the children give for the two
\* endpoint references of its connect statement; get_links gives pairs of
\* addresses of descendants.
C13_LinkIntegrity ==
    /\ \A P \in AllInstances : \A j \in DOMAIN P.links :
          LET l == P.links[j]
          IN  /\ l.parent = ObjRef(P)
              /\ HasItemInChildren(P.children, l.src_ctx.a)
              /\ HasItemInChildren(P.children, l.src_ctx.b)
              /\ l.source = ObjRef(lookup_item_in_children(P.children, l.src_ctx.a))
              /\ l.target = ObjRef(lookup_item_in_children(P.children, l.src_ctx.b))
    /\ \A a \in DOMAIN insts : \A j \in DOMAIN get_links(a, insts) :
          /\ get_links(a, insts)[j][1] \in {d.addr : d \in Descendants(insts[a])}
          /\ get_links(a, insts)[j][2] \in {d.addr : d \in Descendants(insts[a])}

\* the instance of Derived links the inherited pin p1 to its signal s1 and
\* the pin p2 to the signal s2, both declared in their connect statement
C13_Witness ==
    /\ prog = "shadow"
    /\ Addr("f", <<"Derived">>) \in DOMAIN insts
    /\ LET d == insts[Addr("f", <<"Derived">>)]
       IN  /\ Len(d.links) = 2
           /\ get_links(d.addr, insts)
                = << <<add_instance(d.addr, <<"p1">>), add_instance(d.addr, <<"s1">>)>>,
                     <<add_instance(d.addr, <<"p2">>), add_instance(d.addr, <<"s2">>)>> >>
           /\ {"p1", "s1", "p2", "s2"} \subseteq DOMAIN d.children
           /\ d.links[2].source = ObjRef(d.children["p2"])

(***************************************************************************)
(* Parents and children.                                                   *)
(***************************************************************************)
\* the names the parent claims are checked with
ChildNameSet == {"n", "p1"}

\* addresses of every shape: a file, an entry, a nested entry, an instance,
\* a nested instance, and an instance of a file
ParentAddrs ==
    { <<"f">>, Addr("f", <<"A">>), Addr("f", <<"A", "B">>),
      add_instance(Addr("f", <<"A">>), <<"x">>),
      add_instance(add_instance(Addr("f", <<"A">>), <<"x">>), <<"y">>),
      add_instance(<<"f">>, <<"x">>) }

\* C14: every child instance of a resolved tree has its parent's address as
\* get_parent and is among the parent's get_children; get_parent undoes
\* add_instance for every address and name, and is None for an address
\* without an instance section; the calls of get_parent and get_children
\* return just that
C14_ParentChildConsistent ==
    /\ \A a \in DOMAIN insts : \A P \in InstancesIn(insts[a]) :
          \A c \in DOMAIN P.children :
             /\ get_parent(P.children[c].addr) = P.addr
             /\ P.addr \in DOMAIN insts =>
                   /\ get_children(P.addr, CallState, Source(prog)).exc = NoExc
                   /\ P.children[c].addr
                         \in Range(get_children(P.addr, CallState, Source(prog)).obj)
    /\ \A P \in ParentAddrs : \A nm \in ChildNameSet :
          get_parent(add_instance(P, <<nm>>)) = P
    /\ \A P \in ParentAddrs :
          ~Truthy(get_instance_section(P)) /\ DoubleColons(P) = {}
             => get_parent(P) = None
    /\ last.op = "get_parent" /\ get_parent(last.addr) # None
          => add_instance(last.res[1], <<Last(last.addr)>>) = last.addr
    /\ last.op = "get_children" /\ last.exc = NoExc
          => \A j \in DOMAIN last.res[1] : get_parent(last.res[1][j]) = last.addr

\* get_children of a resolved block has listed its children, and get_parent
\* has been asked for the parent of a child
C14_Witness ==
    /\ prog = "shadow"
    /\ last.op = "get_parent"
    /\ last.addr = add_instance(Addr("f", <<"Derived">>), <<"p1">>)
    /\ last.res = <<Addr("f", <<"Derived">>)>>
    /\ Addr("f", <<"Derived">>) \in DOMAIN insts
    /\ last.addr \in Range(get_children(Addr("f", <<"Derived">>),
                                        CallState, Source(prog)).obj)

RECURSIVE PostOrder(_)
RECURSIVE PostOrderOfChildren(_, _)
\* the addresses of the subtrees of the children from child i on, in the
\* order of children
PostOrderOfChildren(inst, i) ==
    IF i > Len(inst.names) THEN <<>>
    ELSE PostOrder(inst.children[inst.names[i]]) \o PostOrderOfChildren(inst, i + 1)

\* the addresses of a subtree in depth-first post-order
PostOrder(inst) == Append(PostOrderOfChildren(inst, 1), inst.addr)

\* C15: all_descendants(addr) of a resolved instance yields the addresses
\* of its subtree, each once, in depth-first post-order, addr last
C15_PostOrder ==
    last.op = "all_descendants" /\ last.addr \in DOMAIN insts
       => /\ last.exc = NoExc
          /\ last.res = <<PostOrder(insts[last.addr])>>

(***************************************************************************)
(* Addresses and their parts.                                              *)
(***************************************************************************)
\* C16: the file, the entry section and the instance section of
\* from_parts(file, entry, instance) are file, entry and instance again
\* (None for an absent section), and other parts give another address
C16_PartsRoundTrip ==
    last.op = "from_parts"
       => /\ last.res = last.lk
          /\ \A file \in FileParts : \A entry \in EntryParts :
                \A instance \in InstanceParts :
                   <<file, entry, instance>> # last.lk
                      => from_parts(file, entry, instance) # last.addr

\* the round trip of the addresses that have an entry section or no
\* instance section, and the difference of all addresses
C16_RoundTripWithEntry ==
    last.op = "from_parts"
       => /\ last.lk[2] # None \/ last.lk[3] = None => last.res = last.lk
          /\ last.res[1] = last.lk[1]
          /\ \A file \in FileParts : \A entry \in EntryParts :
                \A instance \in InstanceParts :
                   <<file, entry, instance>> # last.lk
                      => from_parts(file, entry, instance) # last.addr

(***************************************************************************)
(* Super chains.                                                           *)
(***************************************************************************)
\* the addresses of the five built-in layers
BuiltinAddrs ==
    {BuiltinAddr(nm) : nm \in {"Module", "Component", "Interface", "Pin", "Signal"}}

\* a chain of layers that names no address twice and ends in a built-in
\* layer without super, Component on top of Module
EndsInBuiltin(chain) ==
    /\ chain # <<>>
    /\ \A i, j \in DOMAIN chain :
          chain[i].obj_def.address = chain[j].obj_def.address => i = j
    /\ Last(chain).super = NoObj
    /\ Last(chain).obj_def.address \in BuiltinAddrs
    /\ \A i \in DOMAIN chain :
          chain[i].obj_def.address = BuiltinAddr("Component")
             => /\ i + 1 = Len(chain)
                /\ chain[i + 1].obj_def.address = BuiltinAddr("Module")

\* C17: the super chain of every cached layer is acyclic and ends in one of
\* the five built-in layers; the supers of every instance are such a chain,
\* most-derived first: each layer is followed by its own super
C17_SuperChainsEndInBuiltin ==
    /\ \A a \in DOMAIN layers :
          /\ layers[a].obj_def.address = a
          /\ EndsInBuiltin(SuperChain(layers[a]))
    /\ \A a \in DOMAIN insts : \A inst \in InstancesIn(insts[a]) :
          /\ inst.supers # <<>>
          /\ inst.supers = SuperChain(inst.supers[1])
          /\ EndsInBuiltin(inst.supers)
    /\ last.op \in {"get_obj_layer", "get_instance_tree"} /\ last.exc = NoExc
          => EndsInBuiltin(SuperChain(IF last.op = "get_obj_layer" THEN last.obj
                                      ELSE last.obj.supers[1]))

\* a layer three supers deep has been built and instantiated
C17_Witness ==
    /\ prog = "shadow"
    /\ last.op = "get_instance_tree"
    /\ last.exc = NoExc
    /\ Len(last.obj.supers) = 4
    /\ Len(SuperChain(layers[Addr("f", <<"Derived">>)])) = 4
    /\ last.obj.supers[3] = COMPONENT

(***************************************************************************)
(* Resolution on demand.                                                   *)
(***************************************************************************)
\* the addresses that the definitions X depend on directly: the super of
\* each and the types its block instantiates with new
DirectDependencies(X, D) ==
    UNION { {lookup_obj_in_closure(D[a], D[a].super_ref).addr :
                 x \in {y \in {a} :
                     lookup_obj_in_closure(D[a], D[a].super_ref).exc = NoExc}}
            \cup {lookup_obj_in_closure(D[a], st.b).addr :
                     st \in {t \in BlockStmts(D[a].src) :
                        /\ t.k = "assign" /\ t.v = "new"
                        /\ lookup_obj_in_closure(D[a], t.b).exc = NoExc}}
          : a \in X \cap DOMAIN D }

RECURSIVE Dependencies(_, _)
\* the requested definitions X and their transitive dependencies
Dependencies(X, D) ==
    IF DirectDependencies(X, D) \subseteq X THEN X
    ELSE Dependencies(X \cup DirectDependencies(X, D), D)

\* the definition that a call is a request for
RequestOf(call) ==
    IF call.op \in {"get_children", "all_descendants"} THEN get_entry(call.addr)
    ELSE call.addr

\* C18: a call adds to the layer cache only layers of the requested
\* definition and its transitive dependencies, visits only their blocks,
\* and adds to the instance cache only the requested instance and
\* instances below it; get_obj_layer adds no instance
C18_DemandDriven ==
    [][ LET deps == Dependencies({RequestOf(last')}, defs')
        IN  /\ \A a \in (DOMAIN layers') \ (DOMAIN layers) : a \in deps
            /\ \A a \in (DOMAIN insts') \ (DOMAIN insts) : get_entry(a) \in deps
            /\ \A j \in DOMAIN last'.visits :
                  \E a \in deps \cap DOMAIN defs' : defs'[a].src = last'.visits[j].blk
            /\ last'.op \in {"get_obj_def", "get_obj_layer", "lookup", "get_parent"}
                  => insts' = insts
            /\ last'.op \in {"get_obj_def", "lookup", "get_parent"} => layers' = layers
      ]_vars

\* one block of a file has been instantiated: another block of the file,
\* on which it does not depend, is registered, and no layer and no instance
\* has been built for it
C18_Witness ==
    /\ prog = "top"
    /\ calls = 1
    /\ last.op = "get_instance_tree"
    /\ last.addr = Addr("f", <<"Top">>)
    /\ last.exc = NoExc
    /\ DOMAIN insts = {Addr("f", <<"Top">>)}
    /\ Addr("f", <<"Top">>) \in DOMAIN layers
    /\ Addr("f", <<"Top2">>) \in DOMAIN defs
    /\ Addr("f", <<"Top2">>) \notin DOMAIN layers
    /\ Addr("f", <<"Top2">>) \notin Dependencies({Addr("f", <<"Top">>)}, defs)
    /\ Addr("f", <<"R">>) \in Dependencies({Addr("f", <<"Top">>)}, defs)
    /\ Addr("g", <<"Foo">>) \in Dependencies({Addr("f", <<"Top">>)}, defs)

(***************************************************************************)
(* The category matchers.                                                  *)
(***************************************************************************)
\* the built-in layers whose presence in the super chain a matcher is to
\* accept
AcceptedBuiltins(m) ==
    CASE m = "match_components"       -> {BuiltinAddr("Component")}
      [] m = "match_modules"          -> {BuiltinAddr("Module")}
      [] m = "match_signals"          -> {BuiltinAddr("Signal")}
      [] m = "match_pins"             -> {BuiltinAddr("Pin")}
      [] m = "match_pins_and_signals" -> {BuiltinAddr("Pin"), BuiltinAddr("Signal")}
      [] m = "match_interfaces"       -> {BuiltinAddr("Interface")}
      [] m = "match_sentinels"        -> BuiltinAddrs

\* C19: a matcher called with the address of a cached instance accepts it
\* exactly when one of the built-in layers of its category is in the
\* super chain of the instance
C19_MatchersBySuperChain ==
    last.op \in MatcherNames /\ last.addr \in DOMAIN insts
       => /\ last.exc = NoExc
          /\ last.res[1] =
                (\E i \in DOMAIN insts[last.addr].supers :
                    insts[last.addr].supers[i].obj_def.address
                       \in AcceptedBuiltins(last.op))

\* the same for the six matchers other than match_sentinels
C19_CategoryMatchers ==
    last.op \in MatcherNames \ {"match_sentinels"} => C19_MatchersBySuperChain

(***************************************************************************)
(* The super reference of a definition.                                    *)
(***************************************************************************)
RECURSIVE BlockAt(_, _)
\* the block definition that the statements stmts hold under the path ref
BlockAt(stmts, ref) ==
    LET i == CHOOSE i \in DOMAIN stmts :
                /\ stmts[i].k = "block" /\ stmts[i].a = <<ref[1]>>
                /\ \A j \in DOMAIN stmts :
                      stmts[j].k = "block" /\ stmts[j].a = <<ref[1]>> => j <= i
    IN  IF Len(ref) = 1 THEN stmts[i] ELSE BlockAt(stmts[i].body, Tail(ref))

\* the built-in root that a block keyword names
RootOfKeyword(keyword) ==
    CASE keyword = "module"    -> BuiltinAddr("Module")
      [] keyword = "component" -> BuiltinAddr("Component")
      [] keyword = "interface" -> BuiltinAddr("Interface")

\* C20: every registered definition has the super reference of its header:
\* the reference after from, else the built-in root named by the keyword,
\* and Module for the definition of a file
C20_SuperRefFromHeader ==
    \A a \in DOMAIN defs :
       IF AddrRef(a) = <<>>
       THEN /\ defs[a].super_ref \in DOMAIN BUILTINS_BY_REF
            /\ BUILTINS_BY_REF[defs[a].super_ref].obj_def.address = BuiltinAddr("Module")
       ELSE IF BlockAt(Source(prog)[get_file(a)[1]], AddrRef(a)).w = "FROM"
       THEN defs[a].super_ref = BlockAt(Source(prog)[get_file(a)[1]], AddrRef(a)).b
       ELSE /\ defs[a].super_ref \in DOMAIN BUILTINS_BY_REF
            /\ BUILTINS_BY_REF[defs[a].super_ref].obj_def.address
                 = RootOfKeyword(BlockAt(Source(prog)[get_file(a)[1]], AddrRef(a)).v)

\* a file with a component, a block written with from and an interface has
\* been registered
C20_Witness ==
    /\ prog = "shadow"
    /\ last.op = "get_obj_def"
    /\ last.exc = NoExc
    /\ {<<"f">>, Addr("f", <<"Base">>), Addr("f", <<"Derived">>), Addr("f", <<"I">>)}
          \subseteq DOMAIN defs
    /\ defs[Addr("f", <<"Derived">>)].super_ref = <<"Base">>
    /\ defs[Addr("f", <<"Base">>)].super_ref = <<"COMPONENT">>
    /\ defs[Addr("f", <<"I">>)].super_ref = <<"INTERFACE">>
    /\ defs[<<"f">>].super_ref = <<"MODULE">>

(***************************************************************************)
(* Pending replacements.                                                   *)
(***************************************************************************)
\* the retype directive that the chain of layers holds for the child name
\* nm, taken from the most-derived layer that has one; <<>> if none has
DirectiveFor(chain, nm) ==
    IF \A i \in DOMAIN chain : <<nm>> \notin DOMAIN chain[i].obj_def.replacements
    THEN <<>>
    ELSE LET i == CHOOSE i \in DOMAIN chain :
                    /\ <<nm>> \in DOMAIN chain[i].obj_def.replacements
                    /\ \A j \in DOMAIN chain :
                          <<nm>> \in DOMAIN chain[j].obj_def.replacements => i <= j
         IN  <<[layer |-> i,
                new_super_ref |-> chain[i].obj_def.replacements[<<nm>>].new_super_ref]>>

\* the new statements of a chain of layers whose child has a directive
RetypedNews(chain) ==
    {s \in UNION {BlockStmts(chain[i].src) : i \in DOMAIN chain} :
        IsNewChild(s) /\ DirectiveFor(chain, s.a[1]) # <<>>}

\* C21: when a block with a retype directive for a child and a new
\* statement for that child has been instantiated, the statement has been
\* resolved with the replacement, and the replacement is pending no more:
\* nothing is pending for the address of the child
C21_ReplacementConsumedOnce ==
    (last.op = "get_instance_tree" /\ last.addr \in DOMAIN layers)
    => \A s \in RetypedNews(SuperChain(layers[last.addr])) :
          /\ last.exc = NoExc
          /\ s.a[1] \in DOMAIN last.obj.children
          /\ last.obj.children[s.a[1]].supers # <<>>
          /\ last.obj.children[s.a[1]].supers[1].obj_def.address
               = lookup_obj_in_closure(
                    layers[last.addr].obj_def,
                    DirectiveFor(SuperChain(layers[last.addr]), s.a[1])[1].new_super_ref).addr
          /\ add_instance(last.addr, s.a) \notin DOMAIN known

OverridesThrough(chain, nm) ==
    {s \in UNION {BlockStmts(chain[i].src) : i \in DOMAIN chain} :
        s.k = "assign" /\ s.v = "lit" /\ Len(s.a) > 1 /\ s.a[1] = nm}

\* C23: an override whose path goes through a retyped child is written,
\* after the replacement has been consumed and the children have been
\* built, into the instance built from the replacement type
C23_OverrideIntoRetypedChild ==
    (last.op = "get_instance_tree" /\ last.addr \in DOMAIN layers)
    => \A s \in RetypedNews(SuperChain(layers[last.addr])) :
          \A o \in OverridesThrough(SuperChain(layers[last.addr]), s.a[1]) :
             /\ last.exc = NoExc
             /\ HasItemInChildren(last.obj.children, Front(o.a))
             /\ last.obj.children[s.a[1]].supers[1].obj_def.address
                  = lookup_obj_in_closure(
                       layers[last.addr].obj_def,
                       DirectiveFor(SuperChain(layers[last.addr]), s.a[1])[1].new_super_ref).addr
             /\ DataGet(lookup_item_in_children(last.obj.children, Front(o.a)),
                        Last(o.a)) = o.w

(***************************************************************************)
(* The order of the layers in make_instance.                               *)
(***************************************************************************)
\* the children a block declares, as <<name, address of the built-in>>: by
\* pin and signal statements and by the connectables of connect statements
DeclaredBy(blk) ==
    {<<s.a[1], BuiltinAddr(IF s.k = "pin" THEN "Pin" ELSE "Signal")>> :
        s \in {t \in BlockStmts(blk) : t.k \in {"pin", "signal"}}}
    \cup {<<s.a[1], BuiltinAddr(IF s.v = "pin" THEN "Pin" ELSE "Signal")>> :
        s \in {t \in BlockStmts(blk) : t.k = "connect" /\ t.v \in {"pin", "signal"}}}
    \cup {<<s.b[1], BuiltinAddr(IF s.w = "pin" THEN "Pin" ELSE "Signal")>> :
        s \in {t \in BlockStmts(blk) : t.k = "connect" /\ t.w \in {"pin", "signal"}}}

\* the place in supers of the most-derived layer that declares nm
MostDerivedDeclaring(supers, nm) ==
    CHOOSE i \in DOMAIN supers :
       /\ \E d \in DeclaredBy(supers[i].src) : d[1] = nm
       /\ \A j \in DOMAIN supers :
             (\E d \in DeclaredBy(supers[j].src) : d[1] = nm) => i <= j

\* the blocks that the instance builder visited during the last call
LoftyVisits == SelectSeq(last.visits, LAMBDA v : v.who = "Lofty")

\* C24: make_instance visits the blocks of the layers from base-most to
\* most-derived; a child declared by several layers is the one of the
\* most-derived of them; and the overrides and connections of a layer are
\* resolved against the children of all layers
C24_BaseFirstDerivedWins ==
    (last.op = "get_instance_tree" /\ last.exc = NoExc /\ last.visits # <<>>)
    => /\ LoftyVisits
            = [j \in DOMAIN LoftyVisits |->
                 [LoftyVisits[j] EXCEPT !.blk =
                    SelectSeq(Reverse([i \in DOMAIN last.obj.supers |->
                                          last.obj.supers[i].src]),
                              LAMBDA b : b.k # "none")[j]]]
       /\ Len(LoftyVisits)
            = Cardinality({i \in DOMAIN last.obj.supers : last.obj.supers[i].src.k # "none"})
       /\ \A nm \in DOMAIN last.obj.children :
             <<nm, last.obj.children[nm].supers[1].obj_def.address>>
                \in DeclaredBy(last.obj.supers[MostDerivedDeclaring(last.obj.supers, nm)].src)
       /\ \A i \in DOMAIN last.obj.supers : \A s \in BlockStmts(last.obj.supers[i].src) :
             /\ (s.k = "assign" /\ s.v = "lit" /\ Len(s.a) = 2)
                   => /\ s.a[1] \in DOMAIN last.obj.children
                      /\ DataHas(last.obj.children[s.a[1]], s.a[2])
             /\ s.k = "connect"
                   => \E l \in DOMAIN last.obj.links :
                         /\ last.obj.links[l].source = ObjRef(last.obj.children[s.a[1]])
                         /\ last.obj.links[l].target = ObjRef(last.obj.children[s.b[1]])

\* a derived block has been instantiated: it declares a signal under the
\* name of a pin of its base, and it overrides and connects a pin that
\* only the base declares
C24_Witness ==
    /\ prog = "shadow"
    /\ last.op = "get_instance_tree"
    /\ last.addr = Addr("f", <<"Derived">>)
    /\ last.exc = NoExc
    /\ Len(LoftyVisits) = 2
    /\ LoftyVisits[1].blk.a = <<"Base">>
    /\ LoftyVisits[2].blk.a = <<"Derived">>
    /\ last.obj.children["s2"].supers = <<SIGNAL>>
    /\ DataGet(last.obj.children["p1"], "x") = "7"
    /\ last.obj.links[1].source = ObjRef(last.obj.children["p1"])

(***************************************************************************)
(* The data of a layer.                                                    *)
(***************************************************************************)
\* the direct assignments of a literal to a single name in a block
OwnAssignments(blk) ==
    {s \in BlockStmts(blk) : s.k = "assign" /\ s.v = "lit" /\ Len(s.a) = 1}

\* C25: the data of every layer built from a definition holds exactly the
\* names that the block itself assigns a literal to, each with a value the
\* block assigns to it; nothing of nested blocks, of the supers, of new
\* statements or of multi-segment assignments
C25_LayerDataOwnAssignments ==
    \A a \in (DOMAIN layers) \ BuiltinAddrs :
       /\ DOMAIN layers[a].data = {s.a[1] : s \in OwnAssignments(layers[a].src)}
       /\ \A k \in DOMAIN layers[a].data :
             \E s \in OwnAssignments(layers[a].src) :
                s.a[1] = k /\ s.w = layers[a].data[k]

\* layers have been built for a block that inherits attributes and
\* overrides a child, and for a block with a nested block that assigns
C25_Witness ==
    \/ /\ prog = "shadow"
       /\ Addr("f", <<"Derived">>) \in DOMAIN layers
       /\ layers[Addr("f", <<"Derived">>)].data = [k \in {"x"} |-> "2"]
       /\ layers[Addr("f", <<"Derived">>)].super.data = [k \in {"x", "y"} |->
                                                           IF k = "x" THEN "1" ELSE "5"]
    \/ /\ prog = "lookup"
       /\ Addr("g", <<"A">>) \in DOMAIN layers
       /\ layers[Addr("g", <<"A">>)].data = [k \in {"w"} |-> "3"]

(***************************************************************************)
(* The registration of a file.                                             *)
(***************************************************************************)
RECURSIVE NestedPaths(_)
\* the paths of the block definitions written anywhere in stmts
NestedPaths(stmts) ==
    UNION {{stmts[i].a} \cup {stmts[i].a \o p : p \in NestedPaths(stmts[i].body)} :
              i \in {j \in DOMAIN stmts : stmts[j].k = "block"}}

RECURSIVE EntryAddr(_, _)
\* the address of the block under the path p of a file: one entry segment
\* appended for every name of the path
EntryAddr(file, p) ==
    IF p = <<>> THEN file
    ELSE add_entry(EntryAddr(file, SubSeq(p, 1, Len(p) - 1)), <<p[Len(p)]>>)

\* the addresses of the file that the definition cache holds
RegisteredOf(file) == {a \in DOMAIN defs : get_file(a) = file}

\* C26: a file is registered whole: as soon as the cache holds an address of
\* a file it holds the file and every block nested in it, in one pass, each
\* block under its parent's address with its name appended and with the
\* closure of its parent preceded by the parent; the file has an empty
\* closure; and get_obj_def for an address of a file registers the file
C26_FileRegisteredWhole ==
    /\ \A f \in DOMAIN Source(prog) :
          RegisteredOf(<<f>>) # {} =>
             /\ RegisteredOf(<<f>>)
                  = {EntryAddr(<<f>>, p) : p \in NestedPaths(Source(prog)[f]) \cup {<<>>}}
             /\ defs[<<f>>].address = <<f>>
             /\ defs[<<f>>].closure = <<>>
             /\ \A p \in NestedPaths(Source(prog)[f]) :
                   LET c   == EntryAddr(<<f>>, p)
                       par == EntryAddr(<<f>>, SubSeq(p, 1, Len(p) - 1))
                   IN  /\ defs[c].address = c
                       /\ defs[c].closure = <<defs[par]>> \o defs[par].closure
                       /\ defs[c].oid = defs[<<f>>].oid
    /\ (last.op = "get_obj_def" /\ get_file(last.addr)[1] \in DOMAIN Source(prog))
          => RegisteredOf(get_file(last.addr)) # {}

\* the first get_obj_def of a file with a block nested in a block was for
\* the nested block, and the block got the closure <<parent, file>>
C26_Witness ==
    /\ prog = "lookup"
    /\ calls = 1
    /\ last.op = "get_obj_def"
    /\ last.addr = Addr("f", <<"M", "N">>)
    /\ Addr("f", <<"M", "K">>) \in DOMAIN defs
    /\ Len(defs[Addr("f", <<"M", "N">>)].closure) = 2
    /\ defs[Addr("f", <<"M", "N">>)].closure[1] = defs[Addr("f", <<"M">>)]
    /\ defs[Addr("f", <<"M", "N">>)].closure[2] = defs[<<"f">>]

(***************************************************************************)
(* The depth of a resolution.                                              *)
(***************************************************************************)
\* C27: no getter call resolves an address while it is already resolving
\* that address: the depth of the recursion is bounded by the definitions,
\* and no call is ended by the interpreter's limit on the recursion
C27_RecursionBounded == last.exc.type # "RecursionError"

(***************************************************************************)
(* Several directives for one child.                                       *)
(***************************************************************************)
\* the layers of a chain that hold a directive for the child nm
DirectiveLayers(chain, nm) ==
    {i \in DOMAIN chain : <<nm>> \in DOMAIN chain[i].obj_def.replacements}

\* the children that two layers or more of a chain hold a directive for
ContestedChildren(chain) ==
    {nm \in UNION {{r[1] : r \in DOMAIN chain[i].obj_def.replacements} :
                      i \in DOMAIN chain} :
        Cardinality(DirectiveLayers(chain, nm)) > 1}

\* C28: when a block and one of its supers both hold a directive for the
\* same child, the instantiation of the block gives the child the type of
\* the directive of the most-derived layer, and leaves pending what was
\* pending before
C28_FirstRegisteredWins ==
    (last.op = "get_instance_tree" /\ last.addr \in DOMAIN layers)
    => \A nm \in ContestedChildren(SuperChain(layers[last.addr])) :
          LET chain == SuperChain(layers[last.addr])
              i     == CHOOSE i \in DirectiveLayers(chain, nm) :
                          \A j \in DirectiveLayers(chain, nm) : i <= j
          IN  /\ last.exc = NoExc
              /\ nm \in DOMAIN last.obj.children
              /\ last.obj.children[nm].supers # <<>>
              /\ last.obj.children[nm].supers[1].obj_def.address
                   = lookup_obj_in_closure(
                        chain[i].obj_def,
                        chain[i].obj_def.replacements[<<nm>>].new_super_ref).addr
              /\ known = EmptyDict

(***************************************************************************)
(* The instances of a tree in the cache.                                   *)
(***************************************************************************)
\* C29: after get_instance_tree has returned a tree, the instance cache
\* holds every instance of the tree, pins and signals included, under the
\* address of the instance
C29_ReachableInstancesCached ==
    (last.op = "get_instance_tree" /\ last.exc = NoExc)
    => \A i \in InstancesIn(last.obj) :
          i.addr \in DOMAIN insts /\ insts[i.addr] = i

(***************************************************************************)
(* The instance tree and the history of the compiler.                      *)
(***************************************************************************)
\* the state of a compiler that has served no call
FreshState ==
    [defs |-> EmptyDict, layers |-> BUILTINS_BY_ADDR, insts |-> EmptyDict,
     known |-> EmptyDict, n |-> 0, handled |-> <<>>, visits |-> <<>>]

RECURSIVE Shape(_)
\* the structure of an instance tree: at every node the address, the names
\* of the children in order, the addresses of the supers, the ends of the
\* links and the merged data
Shape(inst) ==
    [addr     |-> inst.addr,
     names    |-> inst.names,
     supers   |-> [i \in DOMAIN inst.supers |-> inst.supers[i].obj_def.address],
     links    |-> [j \in DOMAIN inst.links |->
                     <<inst.links[j].source.addr, inst.links[j].target.addr>>],
     data     |-> [k \in KeysOf(inst) |-> DataGet(inst, k)],
     children |-> [c \in DOMAIN inst.children |-> Shape(inst.children[c])]]

\* C30: whatever calls came before, get_instance_tree for an address ends
\* as it ends on a fresh compiler: with the same kind of exception, or
\* with a tree of the same structure
C30_HistoryIndependent ==
    last.op = "get_instance_tree"
    => LET fresh == get_instance_tree(last.addr, FreshState, Source(prog))
       IN  /\ last.exc.type = fresh.exc.type
           /\ last.exc = NoExc => Shape(last.obj) = Shape(fresh.obj)

\* the tree of a block was built as the third call, after a layer of its
\* file had been built by an earlier call, and the call did not find its
\* tree in the cache
C30_Witness ==
    /\ prog = "shadow"
    /\ calls = 3
    /\ last.op = "get_instance_tree"
    /\ last.addr = Addr("f", <<"Derived">>)
    /\ last.exc = NoExc
    /\ last.visits # <<>>
    /\ <<"get_obj_layer", Addr("f", <<"Base">>)>> \in DOMAIN first
    /\ DOMAIN last.obj.children = {"p1", "s2", "s1", "p2"}

=============================================================================
